---------------------------- MODULE Spec2Model ----------------------------
(***************************************************************************)
(* A model of fastmorph's block-parallel stencil engines                   *)
(* (src/fastmorph/fastmorph.hpp): parallelize_blocks, the thread pool it   *)
(* drives, and the per-block closures of multilabel_dilate,                *)
(* multilabel_erode, grey_dilate and grey_erode (3-D and 2-D overloads).   *)
(*                                                                         *)
(* One call of an engine is one behaviour.  The state is the call's        *)
(* arguments, the two buffers, the position of parallelize_blocks, the     *)
(* pool's queue and workers, and for every enqueued closure the frame of   *)
(* its loop nest.  One action is one iteration of the innermost x loop of  *)
(* a closure (or one step of the driver / pool), so that closures of       *)
(* different blocks interleave voxel by voxel.                             *)
(***************************************************************************)
EXTENDS Integers, Sequences, FiniteSets, TLC

VARIABLES
    args,      \* the call: op, dim, sx, sy, sz, background_only, threads, ltype,
               \* and the offset the engine hands to parallelize_blocks
    labels,    \* LABEL* labels : [0 .. sx*sy*sz-1 -> value]
    output,    \* LABEL* output : [0 .. sx*sy*sz-1 -> value], zeroed on entry
    main,      \* the caller inside parallelize_blocks: pc, gx, gy, gz
    tasks,     \* the closures enqueued so far: bounds, status, worker, frame
    queue,     \* the pool's queue: indexes into tasks, not yet taken
    workers,   \* worker -> index of the task it runs, 0 when idle
    wlog,      \* history: per task, the output indexes it has written
    paths      \* history: the branches of the loop bodies taken so far

vars == <<args, labels, output, main, tasks, queue, workers, wlog, paths>>

---------------------------------------------------------------------------
(* uint64_t arithmetic.  TLC's integers are 32 bits wide, so the modulus   *)
(* of uint64_t is represented by 2^30: every size and index of the model   *)
(* is below 2^11, and a wrapped value is only ever compared with those.    *)
U64Mod == 2^30

U64(n) == n % U64Mod

USub(a, b) == (a - b + U64Mod) % U64Mod

Min(a, b) == IF a < b THEN a ELSE b

Max(a, b) == IF a > b THEN a ELSE b

(* std::numeric_limits<LABEL>::min() / max() of the element types used.    *)
MIN_LABEL(t) == IF t = "int8" THEN -128 ELSE 0

MAX_LABEL(t) == IF t = "int8" THEN 127 ELSE 255

\* mutant: the sort is descending
Sorted_descending(s) == SortSeq(s, LAMBDA p, q: p > q)

(* std::sort on a vector of integers.                                      *)
Sorted(s) == SortSeq(s, LAMBDA p, q: p < q)

---------------------------------------------------------------------------
(* parallelize_blocks                                                      *)

\* block edge: 64 for a volume with sz > 1, else 512
block_size(a) == IF a.sz > 1 THEN 64 ELSE 512

\* mutant: the grid is rounded down
grid_of_floor(s, B) == Max(s \div B, 1)

grid_of(s, B) == Max((s + B - 1) \div B, 1)

grid_x(a) == grid_of(a.sx, block_size(a))

grid_y(a) == grid_of(a.sy, block_size(a))

grid_z(a) == grid_of(a.sz, block_size(a))

\* mutant: the pool gets as many threads as were asked for
real_threads_unclamped(a) == a.threads

real_threads(a) == Max(Min(a.threads, grid_x(a) * grid_y(a) * grid_z(a)), 0)

block_start(g, B, off) == Max(off, g * B)

\* mutant: the last index of a block is taken for its end
block_end_inclusive(g, B, s, off) == Min((g + 1) * B - 1, USub(s, off))

block_end(g, B, s, off) == Min((g + 1) * B, USub(s, off))

\* the bounds captured by the closure enqueued for grid cell (gx, gy, gz)
block_bounds(a, gx, gy, gz) ==
    LET B == block_size(a)
        off == a.offset
    IN [xs |-> block_start(gx, B, off), xe |-> block_end(gx, B, a.sx, off),
        ys |-> block_start(gy, B, off), ye |-> block_end(gy, B, a.sy, off),
        zs |-> block_start(gz, B, off), ze |-> block_end(gz, B, a.sz, off)]

---------------------------------------------------------------------------
(* The loop nest of a block closure.  A frame holds x, y, z of the next    *)
(* iteration of the innermost loop, the closure's locals, and fin once the *)
(* loops have run out.                                                     *)

\* for (z = zs; z < ze; z++) for (y = ys; y < ye; y++) { stale_stencil = 3;
\* for (x = xs; x < xe; x++) ...: the position of the first iteration
loop_entry3(b, locals) ==
    [x |-> b.xs, y |-> b.ys, z |-> b.zs, stale_stencil |-> 3,
     fin |-> (b.zs >= b.ze \/ b.ys >= b.ye \/ b.xs >= b.xe)] @@ locals

\* the 2-D closures ignore zs and ze
loop_entry2(b, locals) ==
    [x |-> b.xs, y |-> b.ys, z |-> 0, stale_stencil |-> 3,
     fin |-> (b.ys >= b.ye \/ b.xs >= b.xe)] @@ locals

\* the x++ of the innermost loop after a body that left x at xb, and the
\* y and z loops' steps when the row has run out
\* mutant: a new row keeps the stale_stencil of the row before
loop_next3_keeps_stale(b, f, xb) ==
    IF xb + 1 < b.xe THEN [f EXCEPT !.x = xb + 1]
    ELSE IF f.y + 1 < b.ye
         THEN [f EXCEPT !.x = b.xs, !.y = f.y + 1]
    ELSE IF f.z + 1 < b.ze
         THEN [f EXCEPT !.x = b.xs, !.y = b.ys, !.z = f.z + 1]
    ELSE [f EXCEPT !.x = xb + 1, !.fin = TRUE]

loop_next3(b, f, xb) ==
    IF xb + 1 < b.xe THEN [f EXCEPT !.x = xb + 1]
    ELSE IF f.y + 1 < b.ye
         THEN [f EXCEPT !.x = b.xs, !.y = f.y + 1, !.stale_stencil = 3]
    ELSE IF f.z + 1 < b.ze
         THEN [f EXCEPT !.x = b.xs, !.y = b.ys, !.z = f.z + 1, !.stale_stencil = 3]
    ELSE [f EXCEPT !.x = xb + 1, !.fin = TRUE]

loop_next2(b, f, xb) ==
    IF xb + 1 < b.xe THEN [f EXCEPT !.x = xb + 1]
    ELSE IF f.y + 1 < b.ye
         THEN [f EXCEPT !.x = b.xs, !.y = f.y + 1, !.stale_stencil = 3]
    ELSE [f EXCEPT !.x = xb + 1, !.fin = TRUE]

\* the outcome of one iteration: the frame, the buffer, the indexes written,
\* and the names of the branches of the body it went through
Iter(f, out, w, via) == [f |-> f, out |-> out, w |-> w, via |-> via]

---------------------------------------------------------------------------
(* multilabel_dilate, 3-D                                                  *)

push_any(L, c, l) == IF c THEN <<L[l]>> ELSE <<>>

\* push_back(labels[l]) under the guard c && labels[l] != 0
push_nonzero(L, c, l) == IF c /\ L[l] # 0 THEN <<L[l]>> ELSE <<>>

fill_partial_stencil_fn(a, L, xi, yi, zi) ==
    IF xi < 0 \/ xi >= a.sx THEN <<>>
    ELSE LET sx == a.sx
             sxy == a.sx * a.sy
             loc == xi + a.sx * (yi + a.sy * zi)
             ylo == yi > 0
             yhi == yi < USub(a.sy, 1)
             zlo == zi > 0
             zhi == zi < USub(a.sz, 1)
         IN push_nonzero(L, TRUE, loc)
            \o push_nonzero(L, ylo, loc - sx)
            \o push_nonzero(L, yhi, loc + sx)
            \o push_nonzero(L, zlo, loc - sxy)
            \o push_nonzero(L, zhi, loc + sxy)
            \o push_nonzero(L, ylo /\ zlo, loc - sx - sxy)
            \o push_nonzero(L, yhi /\ zlo, loc + sx - sxy)
            \o push_nonzero(L, ylo /\ zhi, loc - sx + sxy)
            \o push_nonzero(L, yhi /\ zhi, loc + sx + sxy)

\* mutant: the restricted fill forgets the cell at (y-1, z+1)
fill_partial_stencil_fast_fn_no_ylo(a, L, xi, yi, zi) ==
    IF xi < 0 \/ xi >= a.sx THEN <<>>
    ELSE LET sx == a.sx
             sxy == a.sx * a.sy
             loc == xi + a.sx * (yi + a.sy * zi)
             yhi == yi < USub(a.sy, 1)
             zhi == zi < USub(a.sz, 1)
         IN push_nonzero(L, zhi, loc + sxy)
            \o push_nonzero(L, yhi /\ zhi, loc + sx + sxy)

fill_partial_stencil_fast_fn(a, L, xi, yi, zi) ==
    IF xi < 0 \/ xi >= a.sx THEN <<>>
    ELSE LET sx == a.sx
             sxy == a.sx * a.sy
             loc == xi + a.sx * (yi + a.sy * zi)
             ylo == yi > 0
             yhi == yi < USub(a.sy, 1)
             zhi == zi < USub(a.sz, 1)
         IN push_nonzero(L, zhi, loc + sxy)
            \o push_nonzero(L, ylo /\ zhi, loc - sx + sxy)
            \o push_nonzero(L, yhi /\ zhi, loc + sx + sxy)

\* the run-length scan over the sorted neighbors, from index i (0-based),
\* with its early exit; yields mode_label, ct and max_ct as the loop leaves them
RECURSIVE mode_scan(_, _, _, _, _)
mode_scan(nb, i, mode_label, ct, max_ct) ==
    IF i >= Len(nb) THEN [mode_label |-> mode_label, ct |-> ct, max_ct |-> max_ct]
    ELSE IF nb[i + 1] # nb[i]
         THEN LET ml == IF ct > max_ct THEN nb[i] ELSE mode_label
                  mc == IF ct > max_ct THEN ct ELSE max_ct
              IN IF Len(nb) - i < mc
                 THEN [mode_label |-> ml, ct |-> 1, max_ct |-> mc]
                 ELSE mode_scan(nb, i + 1, ml, 1, mc)
         ELSE mode_scan(nb, i + 1, mode_label, ct + 1, max_ct)

\* mutant: the last run also wins when it only equals the best count
find_mode_last_wins_ties(nb) ==
    LET r == mode_scan(nb, 1, nb[1], 1, 1)
    IN [mode_label |-> IF r.ct >= r.max_ct THEN nb[Len(nb)] ELSE r.mode_label,
        ct |-> r.ct]

\* LABEL mode_label = neighbors[0]; ... if (ct > max_ct) mode_label = neighbors[size-1]
find_mode(nb) ==
    LET r == mode_scan(nb, 1, nb[1], 1, 1)
    IN [mode_label |-> IF r.ct > r.max_ct THEN nb[Len(nb)] ELSE r.mode_label,
        ct |-> r.ct]

\* mutant: stale_stencil == 2 refills middle and right without std::swap(left, right)
refill_without_swap(f, fl, fm, fr) ==
    LET st == f.stale_stencil
    IN IF st = 1
       THEN [left |-> f.middle, middle |-> f.right, right |-> fr]
       ELSE IF st = 2
       THEN [left |-> f.left, middle |-> fm, right |-> fr]
       ELSE IF st >= 3
       THEN [left |-> fl, middle |-> fm, right |-> fr]
       ELSE [left |-> f.left, middle |-> f.middle, right |-> f.right]

\* the refill of left, middle, right selected by stale_stencil; fl, fm, fr
\* are the (full or restricted) fills of the columns x-1, x and x+1
refill(f, fl, fm, fr) ==
    LET st == f.stale_stencil
    IN IF st = 1
       THEN [left |-> f.middle, middle |-> f.right, right |-> fr]
       ELSE IF st = 2
       THEN [left |-> f.right, middle |-> fm, right |-> fr]
       ELSE IF st >= 3
       THEN [left |-> fl, middle |-> fm, right |-> fr]
       ELSE [left |-> f.left, middle |-> f.middle, right |-> f.right]

\* the tail of the loop body, from the sort of middle and right on; uniform_min,
\* pair_min are the thresholds of the overload (14 and 23 in 3-D), full_uniform
\* tells whether the overload has the neighbors[0] == neighbors[size-1] branch.
\* The frame it yields holds x as the body leaves it, before the loop's x++.
dilate_resolve(a, O, f, c, loc, uniform_min, pair_min, full_uniform) ==
    LET x == f.x
        middle == Sorted(c.middle)
        right == Sorted(c.right)
        g == [f EXCEPT !.left = c.left, !.middle = middle, !.right = right]
        more == x < USub(a.sx, 1)
        emit(v, pair, via) ==
            IF pair
            THEN Iter([g EXCEPT !.stale_stencil = 2, !.x = x + 1],
                      [O EXCEPT ![loc] = v, ![loc + 1] = v], {loc, loc + 1},
                      {via, "pair"})
            ELSE Iter([g EXCEPT !.stale_stencil = 1],
                      [O EXCEPT ![loc] = v], {loc}, {via})
    IN IF Len(right) + Len(middle) >= uniform_min
          /\ right[1] = right[Len(right)]
          /\ middle[1] = middle[Len(middle)]
          /\ right[1] = middle[1]
       THEN emit(right[1], more, "uniform")
       ELSE LET neighbors == Sorted(c.left \o middle \o right)
                size == Len(neighbors)
            IN IF full_uniform /\ neighbors[1] = neighbors[size]
               THEN emit(neighbors[1], size >= pair_min /\ more, "all_equal")
               ELSE LET m == find_mode(neighbors)
                    IN emit(m.mode_label, m.ct >= pair_min /\ more, "mode")

dilate_locals == [left |-> <<>>, middle |-> <<>>, right |-> <<>>]

\* one iteration of the x loop of the 3-D closure
multilabel_dilate3_iter(a, L, O, b, f) ==
    LET x == f.x
        sxy == a.sx * a.sy
        loc == x + a.sx * (f.y + a.sy * f.z)
    IN IF a.background_only /\ L[loc] # 0
       THEN Iter(loop_next3(b, [f EXCEPT !.stale_stencil = f.stale_stencil + 1], x),
                 [O EXCEPT ![loc] = L[loc]], {loc}, {"copy"})
       ELSE LET fast == f.z > b.zs /\ O[loc - sxy] = 0
                fill(xi) == IF fast
                            THEN fill_partial_stencil_fast_fn(a, L, xi, f.y, f.z)
                            ELSE fill_partial_stencil_fn(a, L, xi, f.y, f.z)
                c == refill(f, fill(USub(x, 1)), fill(x), fill(U64(USub(x, 1) + 2)))
                via == IF fast
                       THEN (IF f.stale_stencil = 1 THEN {"restricted", "shift"}
                                                    ELSE {"restricted"})
                       ELSE {}
            IN IF Len(c.left) + Len(c.middle) + Len(c.right) = 0
               THEN Iter(loop_next3(b, [f EXCEPT !.left = c.left, !.middle = c.middle,
                                                 !.right = c.right,
                                                 !.stale_stencil = 1], x), O, {},
                         {"empty"} \cup via)
               ELSE LET r == dilate_resolve(a, O, f, c, loc, 14, 23, TRUE)
                    IN [r EXCEPT !.f = loop_next3(b, r.f, r.f.x), !.via = @ \cup via]

---------------------------------------------------------------------------
(* multilabel_dilate, 2-D                                                  *)

fill_partial_stencil_fn2(a, L, xi, yi) ==
    IF xi < 0 \/ xi >= a.sx THEN <<>>
    ELSE LET loc == xi + a.sx * yi
         IN push_nonzero(L, TRUE, loc)
            \o push_nonzero(L, yi > 0, loc - a.sx)
            \o push_nonzero(L, yi < USub(a.sy, 1), loc + a.sx)

\* one iteration of the x loop of the 2-D closure
multilabel_dilate2_iter(a, L, O, b, f) ==
    LET x == f.x
        loc == x + a.sx * f.y
    IN IF a.background_only /\ L[loc] # 0
       THEN Iter(loop_next2(b, [f EXCEPT !.stale_stencil = f.stale_stencil + 1], x),
                 [O EXCEPT ![loc] = L[loc]], {loc}, {"copy"})
       ELSE LET fill(xi) == fill_partial_stencil_fn2(a, L, xi, f.y)
                c == refill(f, fill(USub(x, 1)), fill(x), fill(U64(USub(x, 1) + 2)))
            IN IF Len(c.left) + Len(c.middle) + Len(c.right) = 0
               THEN Iter(loop_next2(b, [f EXCEPT !.left = c.left, !.middle = c.middle,
                                                 !.right = c.right,
                                                 !.stale_stencil = 1], x), O, {},
                         {"empty"})
               ELSE LET r == dilate_resolve(a, O, f, c, loc, 5, 8, FALSE)
                    IN [r EXCEPT !.f = loop_next2(b, r.f, r.f.x)]

---------------------------------------------------------------------------
(* multilabel_erode, 3-D                                                   *)

\* static_cast<LABEL>(labels[loc] * (bool))
times_bool(v, c) == IF c THEN v ELSE 0

is_pure(a, L, xi, yi, zi) ==
    LET sx == a.sx
        sxy == a.sx * a.sy
        loc == xi + a.sx * (yi + a.sy * zi)
        ylo == yi > 0
        yhi == yi < USub(a.sy, 1)
        zlo == zi > 0
        zhi == zi < USub(a.sz, 1)
    IN times_bool(L[loc],
           /\ (xi >= 0 /\ xi < sx)
           /\ L[loc] # 0
           /\ (ylo /\ L[loc - sx] = L[loc])
           /\ (yhi /\ L[loc + sx] = L[loc])
           /\ (zlo /\ L[loc - sxy] = L[loc])
           /\ (zhi /\ L[loc + sxy] = L[loc])
           /\ (ylo /\ zlo /\ L[loc - sx - sxy] = L[loc])
           /\ (yhi /\ zlo /\ L[loc + sx - sxy] = L[loc])
           /\ (ylo /\ zhi /\ L[loc - sx + sxy] = L[loc])
           /\ (yhi /\ zhi /\ L[loc + sx + sxy] = L[loc]))

\* mutant: the z+1 slab is checked at y-1 and y+1 only
is_pure_fast_z_no_centre(a, L, xi, yi, zi) ==
    LET sx == a.sx
        sxy == a.sx * a.sy
        loc == xi + a.sx * (yi + a.sy * zi)
        ylo == yi > 0
        yhi == yi < USub(a.sy, 1)
        zhi == zi < USub(a.sz, 1)
    IN times_bool(L[loc],
           /\ (xi >= 0 /\ xi < sx)
           /\ (ylo /\ zhi /\ L[loc - sx + sxy] = L[loc])
           /\ (yhi /\ zhi /\ L[loc + sx + sxy] = L[loc]))

is_pure_fast_z(a, L, xi, yi, zi) ==
    LET sx == a.sx
        sxy == a.sx * a.sy
        loc == xi + a.sx * (yi + a.sy * zi)
        ylo == yi > 0
        yhi == yi < USub(a.sy, 1)
        zhi == zi < USub(a.sz, 1)
    IN times_bool(L[loc],
           /\ (xi >= 0 /\ xi < sx)
           /\ (zhi /\ L[loc + sxy] = L[loc])
           /\ (ylo /\ zhi /\ L[loc - sx + sxy] = L[loc])
           /\ (yhi /\ zhi /\ L[loc + sx + sxy] = L[loc]))

is_pure_fast_y(a, L, xi, yi, zi) ==
    LET sx == a.sx
        sxy == a.sx * a.sy
        loc == xi + a.sx * (yi + a.sy * zi)
        yhi == yi < USub(a.sy, 1)
        zlo == zi > 0
        zhi == zi < USub(a.sz, 1)
    IN times_bool(L[loc],
           /\ (xi >= 0 /\ xi < sx)
           /\ (yhi /\ L[loc + sx] = L[loc])
           /\ (yhi /\ zlo /\ L[loc + sx - sxy] = L[loc])
           /\ (yhi /\ zhi /\ L[loc + sx + sxy] = L[loc]))

\* what FILL_STENCIL leaves: skip > 0 is one of its "x += skip; continue"
\* exits, with the stale_stencil it sets
Filled(skip, stale, l, m, r) ==
    [skip |-> skip, stale |-> stale, pure_left |-> l, pure_middle |-> m, pure_right |-> r]

\* mutant: stale_stencil == 2 keeps pure_left instead of taking pure_right
FILL_STENCIL_keeps_left(f, pl, pm, pr) ==
    LET st == f.stale_stencil
    IN IF st = 1
       THEN Filled(0, st, f.pure_middle, f.pure_right, pr)
       ELSE IF st >= 3
       THEN IF pr = 0 THEN Filled(2, 3, f.pure_left, f.pure_middle, pr)
            ELSE IF pm = 0 THEN Filled(1, 2, f.pure_left, pm, pr)
            ELSE Filled(0, st, pl, pm, pr)
       ELSE IF st = 2
       THEN IF pr = 0 THEN Filled(2, 3, f.pure_left, f.pure_middle, pr)
            ELSE Filled(0, st, f.pure_left, pm, pr)
       ELSE Filled(0, st, f.pure_left, f.pure_middle, f.pure_right)

\* FILL_STENCIL(is_pure_fn) at x; pl, pm, pr are is_pure_fn(x-1,y,z),
\* is_pure_fn(x,y,z) and is_pure_fn(x+1,y,z)
FILL_STENCIL(f, pl, pm, pr) ==
    LET st == f.stale_stencil
    IN IF st = 1
       THEN Filled(0, st, f.pure_middle, f.pure_right, pr)
       ELSE IF st >= 3
       THEN IF pr = 0 THEN Filled(2, 3, f.pure_left, f.pure_middle, pr)
            ELSE IF pm = 0 THEN Filled(1, 2, f.pure_left, pm, pr)
            ELSE Filled(0, st, pl, pm, pr)
       ELSE IF st = 2
       THEN IF pr = 0 THEN Filled(2, 3, f.pure_right, f.pure_middle, pr)
            ELSE Filled(0, st, f.pure_right, pm, pr)
       ELSE Filled(0, st, f.pure_left, f.pure_middle, f.pure_right)

\* the loop body after the labels[loc] == 0 test, given what FILL_STENCIL left.
\* The frame it yields holds x as the body leaves it, before the loop's x++.
erode_resolve(L, O, f, loc, c) ==
    LET x == f.x
        g == [f EXCEPT !.pure_left = c.pure_left, !.pure_middle = c.pure_middle,
                       !.pure_right = c.pure_right]
    IN IF c.skip > 0
       THEN Iter([g EXCEPT !.stale_stencil = c.stale, !.x = x + c.skip], O, {},
                 {IF c.skip = 2 THEN "skip2" ELSE "skip1"})
       ELSE IF c.pure_right = 0
       THEN Iter([g EXCEPT !.stale_stencil = 3, !.x = x + 2], O, {}, {"skip2"})
       ELSE IF c.pure_middle = 0
       THEN Iter([g EXCEPT !.stale_stencil = 2, !.x = x + 1], O, {}, {"skip1"})
       ELSE IF c.pure_left = c.pure_middle /\ c.pure_middle = c.pure_right
       THEN Iter([g EXCEPT !.stale_stencil = 1],
                 [O EXCEPT ![loc] = L[loc]], {loc}, {"emit"})
       ELSE Iter([g EXCEPT !.stale_stencil = 1], O, {}, {"mixed"})

erode_locals == [pure_left |-> 0, pure_middle |-> 0, pure_right |-> 0]

\* mutant: output[loc - sxy] and output[loc - sx] are consulted without the
\* guards z > zs and y > ys
multilabel_erode3_iter_unguarded(a, L, O, b, f) ==
    LET x == f.x
        sxy == a.sx * a.sy
        loc == x + a.sx * (f.y + a.sy * f.z)
        pure(xi) == is_pure(a, L, xi, f.y, f.z)
        pure_z(xi) == is_pure_fast_z(a, L, xi, f.y, f.z)
        pure_y(xi) == is_pure_fast_y(a, L, xi, f.y, f.z)
        xl == USub(x, 1)
        r == IF O[loc - sxy] = L[loc]
             THEN [erode_resolve(L, O, f, loc,
                                 FILL_STENCIL(f, pure_z(xl), pure_z(x), pure_z(x + 1)))
                     EXCEPT !.via = @ \cup {"fast_z"}]
             ELSE IF O[loc - a.sx] = L[loc]
             THEN [erode_resolve(L, O, f, loc,
                                 FILL_STENCIL(f, pure_y(xl), pure_y(x), pure_y(x + 1)))
                     EXCEPT !.via = @ \cup {"fast_y"}]
             ELSE erode_resolve(L, O, f, loc,
                                FILL_STENCIL(f, pure(xl), pure(x), pure(x + 1)))
    IN IF L[loc] = 0
       THEN Iter(loop_next3(b, [f EXCEPT !.stale_stencil = f.stale_stencil + 2], x + 1),
                 O, {}, {"zero"})
       ELSE [r EXCEPT !.f = loop_next3(b, r.f, r.f.x)]

\* one iteration of the x loop of the 3-D closure
multilabel_erode3_iter(a, L, O, b, f) ==
    LET x == f.x
        sxy == a.sx * a.sy
        loc == x + a.sx * (f.y + a.sy * f.z)
        pure(xi) == is_pure(a, L, xi, f.y, f.z)
        pure_z(xi) == is_pure_fast_z(a, L, xi, f.y, f.z)
        pure_y(xi) == is_pure_fast_y(a, L, xi, f.y, f.z)
        xl == USub(x, 1)
        r == IF f.z > b.zs /\ O[loc - sxy] = L[loc]
             THEN [erode_resolve(L, O, f, loc,
                                 FILL_STENCIL(f, pure_z(xl), pure_z(x), pure_z(x + 1)))
                     EXCEPT !.via = @ \cup {"fast_z"}]
             ELSE IF f.y > b.ys /\ O[loc - a.sx] = L[loc]
             THEN [erode_resolve(L, O, f, loc,
                                 FILL_STENCIL(f, pure_y(xl), pure_y(x), pure_y(x + 1)))
                     EXCEPT !.via = @ \cup {"fast_y"}]
             ELSE erode_resolve(L, O, f, loc,
                                FILL_STENCIL(f, pure(xl), pure(x), pure(x + 1)))
    IN IF L[loc] = 0
       THEN Iter(loop_next3(b, [f EXCEPT !.stale_stencil = f.stale_stencil + 2], x + 1),
                 O, {}, {"zero"})
       ELSE [r EXCEPT !.f = loop_next3(b, r.f, r.f.x)]

\* the indexes at which that iteration loads from output: output[loc - sxy]
\* under z > zs and, when that test fails, output[loc - sx] under y > ys
erode_output_loads(a, L, O, b, f) ==
    LET sxy == a.sx * a.sy
        loc == f.x + a.sx * (f.y + a.sy * f.z)
        below == IF f.z > b.zs THEN {loc - sxy} ELSE {}
        behind == IF f.y > b.ys THEN {loc - a.sx} ELSE {}
    IN IF L[loc] = 0 THEN {}
       ELSE IF f.z > b.zs /\ O[loc - sxy] = L[loc] THEN below
       ELSE below \cup behind

---------------------------------------------------------------------------
(* multilabel_erode, 2-D                                                   *)

is_pure2(a, L, xi, yi) ==
    LET loc == xi + a.sx * yi
    IN times_bool(L[loc],
           /\ (xi >= 0 /\ xi < a.sx)
           /\ L[loc] # 0
           /\ (yi > 0 /\ L[loc - a.sx] = L[loc])
           /\ (yi < USub(a.sy, 1) /\ L[loc + a.sx] = L[loc]))

\* one iteration of the x loop of the 2-D closure
multilabel_erode2_iter(a, L, O, b, f) ==
    LET x == f.x
        loc == x + a.sx * f.y
        pure(xi) == is_pure2(a, L, xi, f.y)
    IN IF L[loc] = 0
       THEN Iter(loop_next2(b, [f EXCEPT !.stale_stencil = f.stale_stencil + 2], x + 1),
                 O, {}, {"zero"})
       ELSE LET r == erode_resolve(L, O, f, loc,
                                   FILL_STENCIL(f, pure(USub(x, 1)), pure(x), pure(x + 1)))
            IN [r EXCEPT !.f = loop_next2(b, r.f, r.f.x)]

---------------------------------------------------------------------------
(* grey_dilate                                                             *)

\* maxval = std::max(maxval, labels[l]) under the guard c
max_if(L, m, c, l) == IF c THEN Max(m, L[l]) ELSE m

get_max(a, L, xi, yi, zi) ==
    LET sx == a.sx
        sxy == a.sx * a.sy
        loc == xi + a.sx * (yi + a.sy * zi)
        ylo == yi > 0
        yhi == yi < USub(a.sy, 1)
        zlo == zi > 0
        zhi == zi < USub(a.sz, 1)
        m0 == MIN_LABEL(a.ltype)
    IN IF xi < 0 \/ xi >= sx THEN m0
       ELSE LET m1 == Max(m0, L[loc])
                m2 == max_if(L, m1, ylo, loc - sx)
                m3 == max_if(L, m2, yhi, loc + sx)
                m4 == max_if(L, m3, zlo, loc - sxy)
                m5 == max_if(L, m4, zhi, loc + sxy)
                m6 == max_if(L, m5, ylo /\ zlo, loc - sx - sxy)
                m7 == max_if(L, m6, yhi /\ zlo, loc + sx - sxy)
                m8 == max_if(L, m7, ylo /\ zhi, loc - sx + sxy)
            IN max_if(L, m8, yhi /\ zhi, loc + sx + sxy)

get_max2(a, L, xi, yi) ==
    LET loc == xi + a.sx * yi
        m0 == MIN_LABEL(a.ltype)
    IN IF xi < 0 \/ xi >= a.sx THEN m0
       ELSE LET m1 == Max(m0, L[loc])
                m2 == max_if(L, m1, yi > 0, loc - a.sx)
            IN max_if(L, m2, yi < USub(a.sy, 1), loc + a.sx)

\* the loop body after the labels[loc] == MAX_LABEL test; gl, gm, gr are
\* get_max of the columns x-1, x and x+1.  The frame it yields holds x as the
\* body leaves it, before the loop's x++.
grey_dilate_resolve(a, O, f, loc, gl, gm, gr) ==
    LET x == f.x
        st == f.stale_stencil
        MAXL == MAX_LABEL(a.ltype)
        skip(g, n, stale) ==
            Iter([g EXCEPT !.stale_stencil = stale, !.x = x + n], O, {},
                 {IF n = 2 THEN "skip2" ELSE "skip1"})
        done(l, m, r) ==
            LET g == [f EXCEPT !.max_left = l, !.max_middle = m, !.max_right = r]
            IN IF r = MAXL THEN skip(g, 2, 3)
               ELSE IF m = MAXL THEN skip(g, 1, 2)
               ELSE Iter([g EXCEPT !.stale_stencil = 1],
                         [O EXCEPT ![loc] = Max(Max(l, m), r)], {loc}, {"emit"})
    IN IF st = 1 THEN done(f.max_middle, f.max_right, gr)
       ELSE IF st >= 3
       THEN IF gr = MAXL THEN skip([f EXCEPT !.max_right = gr], 2, 3)
            ELSE IF gm = MAXL
            THEN skip([f EXCEPT !.max_right = gr, !.max_middle = gm], 1, 2)
            ELSE done(gl, gm, gr)
       ELSE IF st = 2
       THEN IF gr = MAXL
            THEN skip([f EXCEPT !.max_left = f.max_right, !.max_right = gr], 2, 3)
            ELSE done(f.max_right, gm, gr)
       ELSE done(f.max_left, f.max_middle, f.max_right)

grey_dilate_locals(a) ==
    [max_left |-> MAX_LABEL(a.ltype), max_middle |-> MAX_LABEL(a.ltype),
     max_right |-> MAX_LABEL(a.ltype)]

grey_dilate3_iter(a, L, O, b, f) ==
    LET x == f.x
        loc == x + a.sx * (f.y + a.sy * f.z)
        get(xi) == get_max(a, L, xi, f.y, f.z)
    IN IF L[loc] = MAX_LABEL(a.ltype)
       THEN Iter(loop_next3(b, [f EXCEPT !.stale_stencil = f.stale_stencil + 2], x + 1),
                 O, {}, {"sentinel"})
       ELSE LET r == grey_dilate_resolve(a, O, f, loc, get(USub(x, 1)), get(x), get(x + 1))
            IN [r EXCEPT !.f = loop_next3(b, r.f, r.f.x)]

grey_dilate2_iter(a, L, O, b, f) ==
    LET x == f.x
        loc == x + a.sx * f.y
        get(xi) == get_max2(a, L, xi, f.y)
    IN IF L[loc] = MAX_LABEL(a.ltype)
       THEN Iter(loop_next2(b, [f EXCEPT !.stale_stencil = f.stale_stencil + 2], x + 1),
                 O, {}, {"sentinel"})
       ELSE LET r == grey_dilate_resolve(a, O, f, loc, get(USub(x, 1)), get(x), get(x + 1))
            IN [r EXCEPT !.f = loop_next2(b, r.f, r.f.x)]

---------------------------------------------------------------------------
(* grey_erode                                                              *)

\* minval = std::min(minval, labels[l]) under the guard c
min_if(L, m, c, l) == IF c THEN Min(m, L[l]) ELSE m

get_min(a, L, xi, yi, zi) ==
    LET sx == a.sx
        sxy == a.sx * a.sy
        loc == xi + a.sx * (yi + a.sy * zi)
        ylo == yi > 0
        yhi == yi < USub(a.sy, 1)
        zlo == zi > 0
        zhi == zi < USub(a.sz, 1)
        m0 == MAX_LABEL(a.ltype)
    IN IF xi < 0 \/ xi >= sx THEN m0
       ELSE LET m1 == Min(m0, L[loc])
                m2 == min_if(L, m1, ylo, loc - sx)
                m3 == min_if(L, m2, yhi, loc + sx)
                m4 == min_if(L, m3, zlo, loc - sxy)
                m5 == min_if(L, m4, zhi, loc + sxy)
                m6 == min_if(L, m5, ylo /\ zlo, loc - sx - sxy)
                m7 == min_if(L, m6, yhi /\ zlo, loc + sx - sxy)
                m8 == min_if(L, m7, ylo /\ zhi, loc - sx + sxy)
            IN min_if(L, m8, yhi /\ zhi, loc + sx + sxy)

get_min2(a, L, xi, yi) ==
    LET loc == xi + a.sx * yi
        m0 == MAX_LABEL(a.ltype)
    IN IF xi < 0 \/ xi >= a.sx THEN m0
       ELSE LET m1 == Min(m0, L[loc])
                m2 == min_if(L, m1, yi > 0, loc - a.sx)
            IN min_if(L, m2, yi < USub(a.sy, 1), loc + a.sx)

\* the loop body after the labels[loc] == MIN_LABEL test; gl, gm, gr are
\* get_min of the columns x-1, x and x+1.  The frame it yields holds x as the
\* body leaves it, before the loop's x++.
grey_erode_resolve(a, O, f, loc, gl, gm, gr) ==
    LET x == f.x
        st == f.stale_stencil
        MINL == MIN_LABEL(a.ltype)
        skip(g, n, stale) ==
            Iter([g EXCEPT !.stale_stencil = stale, !.x = x + n], O, {},
                 {IF n = 2 THEN "skip2" ELSE "skip1"})
        done(l, m, r) ==
            LET g == [f EXCEPT !.min_left = l, !.min_middle = m, !.min_right = r]
            IN IF r = MINL THEN skip(g, 2, 3)
               ELSE IF m = MINL THEN skip(g, 1, 2)
               ELSE Iter([g EXCEPT !.stale_stencil = 1],
                         [O EXCEPT ![loc] = Min(Min(l, m), r)], {loc}, {"emit"})
    IN IF st = 1 THEN done(f.min_middle, f.min_right, gr)
       ELSE IF st >= 3
       THEN IF gr = MINL THEN skip([f EXCEPT !.min_right = gr], 2, 3)
            ELSE IF gm = MINL
            THEN skip([f EXCEPT !.min_right = gr, !.min_middle = gm], 1, 2)
            ELSE done(gl, gm, gr)
       ELSE IF st = 2
       THEN IF gr = MINL
            THEN skip([f EXCEPT !.min_left = f.min_right, !.min_right = gr], 2, 3)
            ELSE done(f.min_right, gm, gr)
       ELSE done(f.min_left, f.min_middle, f.min_right)

grey_erode_locals(a) ==
    [min_left |-> MIN_LABEL(a.ltype), min_middle |-> MIN_LABEL(a.ltype),
     min_right |-> MIN_LABEL(a.ltype)]

\* mutant: a voxel holding MIN_LABEL makes the loop step over two more voxels
grey_erode3_iter_long_skip(a, L, O, b, f) ==
    LET x == f.x
        loc == x + a.sx * (f.y + a.sy * f.z)
        get(xi) == get_min(a, L, xi, f.y, f.z)
    IN IF L[loc] = MIN_LABEL(a.ltype)
       THEN Iter(loop_next3(b, [f EXCEPT !.stale_stencil = f.stale_stencil + 2], x + 2),
                 O, {}, {"sentinel"})
       ELSE LET r == grey_erode_resolve(a, O, f, loc, get(USub(x, 1)), get(x), get(x + 1))
            IN [r EXCEPT !.f = loop_next3(b, r.f, r.f.x)]

grey_erode3_iter(a, L, O, b, f) ==
    LET x == f.x
        loc == x + a.sx * (f.y + a.sy * f.z)
        get(xi) == get_min(a, L, xi, f.y, f.z)
    IN IF L[loc] = MIN_LABEL(a.ltype)
       THEN Iter(loop_next3(b, [f EXCEPT !.stale_stencil = f.stale_stencil + 2], x + 1),
                 O, {}, {"sentinel"})
       ELSE LET r == grey_erode_resolve(a, O, f, loc, get(USub(x, 1)), get(x), get(x + 1))
            IN [r EXCEPT !.f = loop_next3(b, r.f, r.f.x)]

grey_erode2_iter(a, L, O, b, f) ==
    LET x == f.x
        loc == x + a.sx * f.y
        get(xi) == get_min2(a, L, xi, f.y)
    IN IF L[loc] = MIN_LABEL(a.ltype)
       THEN Iter(loop_next2(b, [f EXCEPT !.stale_stencil = f.stale_stencil + 2], x + 1),
                 O, {}, {"sentinel"})
       ELSE LET r == grey_erode_resolve(a, O, f, loc, get(USub(x, 1)), get(x), get(x + 1))
            IN [r EXCEPT !.f = loop_next2(b, r.f, r.f.x)]

---------------------------------------------------------------------------
(* The call, the driver and the pool                                       *)

\* the arguments of one engine call; the 2-D overloads hand sz = 1 and the
\* erosions hand offset = 1 to parallelize_blocks
Call(op, dim, sx, sy, sz, bg, threads, ltype) ==
    [op |-> op, dim |-> dim, sx |-> sx, sy |-> sy, sz |-> IF dim = 2 THEN 1 ELSE sz,
     background_only |-> bg, threads |-> threads, ltype |-> ltype,
     offset |-> IF op = "multilabel_erode" THEN 1 ELSE 0]

\* parallelize_blocks called with a closure that does nothing
DriverCall(sx, sy, sz, threads, offset) ==
    [op |-> "none", dim |-> 3, sx |-> sx, sy |-> sy, sz |-> sz,
     background_only |-> FALSE, threads |-> threads, ltype |-> "uint8",
     offset |-> offset]

\* the state on entry to parallelize_blocks: ThreadPool pool(real_threads),
\* nothing enqueued; worker 0 stands for the calling thread
Entry(a, L) ==
    /\ args = a
    /\ labels = L
    /\ output = [i \in DOMAIN L |-> 0]
    /\ main = [pc |-> "enqueue", gx |-> 0, gy |-> 0, gz |-> 0]
    /\ tasks = <<>>
    /\ queue = <<>>
    /\ workers = [w \in 0 .. real_threads(a) |-> 0]
    /\ wlog = <<>>
    /\ paths = {}

\* one iteration of the gz/gy/gx loops: pool.enqueue of the closure of a cell
Enqueue ==
    /\ main.pc = "enqueue"
    /\ tasks' = Append(tasks, [b |-> block_bounds(args, main.gx, main.gy, main.gz),
                               st |-> "queued", by |-> -1, runs |-> 0,
                               f |-> [fin |-> FALSE]])
    /\ queue' = Append(queue, Len(tasks) + 1)
    /\ wlog' = Append(wlog, {})
    /\ main' = IF main.gx + 1 < grid_x(args) THEN [main EXCEPT !.gx = main.gx + 1]
               ELSE IF main.gy + 1 < grid_y(args)
                    THEN [main EXCEPT !.gx = 0, !.gy = main.gy + 1]
               ELSE IF main.gz + 1 < grid_z(args)
                    THEN [main EXCEPT !.gx = 0, !.gy = 0, !.gz = main.gz + 1]
               ELSE [main EXCEPT !.pc = "join"]
    /\ UNCHANGED <<args, labels, output, workers, paths>>

\* the frame a closure starts with: its position and its locals
block_entry(a, b) ==
    IF a.op = "multilabel_dilate"
    THEN (IF a.dim = 3 THEN loop_entry3(b, dilate_locals) ELSE loop_entry2(b, dilate_locals))
    ELSE IF a.op = "multilabel_erode"
    THEN (IF a.dim = 3 THEN loop_entry3(b, erode_locals) ELSE loop_entry2(b, erode_locals))
    ELSE IF a.op = "grey_dilate"
    THEN (IF a.dim = 3 THEN loop_entry3(b, grey_dilate_locals(a))
                       ELSE loop_entry2(b, grey_dilate_locals(a)))
    ELSE IF a.op = "grey_erode"
    THEN (IF a.dim = 3 THEN loop_entry3(b, grey_erode_locals(a))
                       ELSE loop_entry2(b, grey_erode_locals(a)))
    ELSE [fin |-> TRUE]

\* one iteration of the closure of the engine called
block_iter(a, L, O, b, f) ==
    IF a.op = "multilabel_dilate"
    THEN (IF a.dim = 3 THEN multilabel_dilate3_iter(a, L, O, b, f)
                       ELSE multilabel_dilate2_iter(a, L, O, b, f))
    ELSE IF a.op = "multilabel_erode"
    THEN (IF a.dim = 3 THEN multilabel_erode3_iter(a, L, O, b, f)
                       ELSE multilabel_erode2_iter(a, L, O, b, f))
    ELSE IF a.op = "grey_dilate"
    THEN (IF a.dim = 3 THEN grey_dilate3_iter(a, L, O, b, f)
                       ELSE grey_dilate2_iter(a, L, O, b, f))
    ELSE (IF a.dim = 3 THEN grey_erode3_iter(a, L, O, b, f)
                       ELSE grey_erode2_iter(a, L, O, b, f))

\* a worker takes the closure at the head of the queue; with no pool thread
\* the calling thread runs the closures itself, once it has enqueued them all
Take(w) ==
    /\ workers[w] = 0
    /\ main.pc # "fault"
    /\ queue # <<>>
    /\ w = 0 => (main.pc = "join" /\ real_threads(args) = 0)
    /\ LET t == Head(queue)
       IN /\ tasks' = [tasks EXCEPT ![t].st = "running", ![t].by = w,
                                    ![t].runs = @ + 1,
                                    ![t].f = block_entry(args, tasks[t].b)]
          /\ workers' = [workers EXCEPT ![w] = t]
    /\ queue' = Tail(queue)
    /\ UNCHANGED <<args, labels, output, main, wlog, paths>>

\* uint64_t loc = x + sx * (y + sy * z): the index an iteration starts from
loc_of(a, f) == f.x + a.sx * (f.y + a.sy * f.z)

\* the output buffer as an iteration addresses it: sx * sy * sz cells, of
\* which the caller's allocation may hold fewer
addressed(L, O) ==
    IF DOMAIN O = DOMAIN L THEN O
    ELSE [i \in DOMAIN L |-> IF i \in DOMAIN O THEN O[i] ELSE 0]

\* a worker runs one iteration of the x loop of the closure it holds. An
\* iteration that loads labels[loc] or stores to output past the end of the
\* caller's allocation (a null or short buffer, or an axis of size 0 seen
\* through the wrapped s - offset of block_end) is undefined behaviour, after
\* which the process is killed, or the closure runs on and returns, having
\* stored outside the buffer or not.
BlockStep(w, op, dim) ==
    /\ workers[w] # 0
    /\ main.pc # "fault"
    /\ args.op = op /\ args.dim = dim
    /\ LET t == workers[w]
           f == tasks[t].f
           r == block_iter(args, labels, addressed(labels, output), tasks[t].b, f)
       IN /\ ~f.fin
          /\ IF loc_of(args, f) \in DOMAIN labels /\ r.w \subseteq DOMAIN output
             THEN /\ output' = IF DOMAIN output = DOMAIN labels THEN r.out
                             ELSE [i \in DOMAIN output |-> r.out[i]]
                  /\ tasks' = [tasks EXCEPT ![t].f = r.f]
                  /\ wlog' = [wlog EXCEPT ![t] = @ \cup r.w]
                  /\ paths' = paths \cup r.via
                  /\ main' = main
             ELSE \E outcome \in {"fault", "load", "store"} :
                     /\ output' = output
                     /\ tasks' = [tasks EXCEPT ![t].f.fin = (outcome # "fault")]
                     /\ wlog' = [wlog EXCEPT ![t] = IF outcome = "store"
                                                    THEN @ \cup {loc_of(args, f)}
                                                    ELSE @]
                     /\ paths' = paths \cup {"out_of_bounds"}
                     /\ main' = IF outcome = "fault"
                                THEN [main EXCEPT !.pc = "fault"]
                                ELSE main
    /\ UNCHANGED <<args, labels, queue, workers>>

\* the closure returns
Finish(w) ==
    /\ workers[w] # 0
    /\ main.pc # "fault"
    /\ tasks[workers[w]].f.fin
    /\ tasks' = [tasks EXCEPT ![workers[w]].st = "done"]
    /\ workers' = [workers EXCEPT ![w] = 0]
    /\ UNCHANGED <<args, labels, output, main, queue, wlog, paths>>

\* pool.join() returns
Join ==
    /\ main.pc = "join"
    /\ queue = <<>>
    /\ \A t \in DOMAIN tasks : tasks[t].st = "done"
    /\ main' = [main EXCEPT !.pc = "done"]
    /\ UNCHANGED <<args, labels, output, tasks, queue, workers, wlog, paths>>

TakeAny == \E w \in DOMAIN workers : Take(w)

FinishAny == \E w \in DOMAIN workers : Finish(w)

multilabel_dilate3_step ==
    \E w \in DOMAIN workers : BlockStep(w, "multilabel_dilate", 3)

multilabel_dilate2_step ==
    \E w \in DOMAIN workers : BlockStep(w, "multilabel_dilate", 2)

multilabel_erode3_step ==
    \E w \in DOMAIN workers : BlockStep(w, "multilabel_erode", 3)

multilabel_erode2_step ==
    \E w \in DOMAIN workers : BlockStep(w, "multilabel_erode", 2)

grey_dilate3_step ==
    \E w \in DOMAIN workers : BlockStep(w, "grey_dilate", 3)

grey_dilate2_step ==
    \E w \in DOMAIN workers : BlockStep(w, "grey_dilate", 2)

grey_erode3_step ==
    \E w \in DOMAIN workers : BlockStep(w, "grey_erode", 3)

grey_erode2_step ==
    \E w \in DOMAIN workers : BlockStep(w, "grey_erode", 2)

Driver == Enqueue \/ TakeAny \/ FinishAny \/ Join

---------------------------------------------------------------------------
(* Inputs                                                                  *)

\* labels are drawn from 0 .. MaxLabel
MaxLabel == 2

\* an input volume differs from a uniformly filled one in at most MaxDiff cells
MaxDiff == 2

\* grey values are drawn from 0 .. MaxGrey and the two limits of the type
MaxGrey == 1

Labels == 0 .. MaxLabel

GreyValues(t) == (0 .. MaxGrey) \cup {MIN_LABEL(t), MAX_LABEL(t)}

\* the buffers that differ from a buffer of F in at most k cells of W
RECURSIVE Perturb(_, _, _, _)
Perturb(F, W, Vals, k) ==
    IF k = 0 THEN F
    ELSE Perturb(F \cup {[f EXCEPT ![i] = v] : f \in F, i \in W, v \in Vals},
                 W, Vals, k - 1)

\* the volumes of n cells filled with one value of Base, then changed in at
\* most MaxDiff cells of the window W
Inputs(n, W, Base, Vals) ==
    Perturb({[i \in 0 .. n - 1 |-> v] : v \in Base}, W, Vals, MaxDiff)

\* a shape and the window of cells in which the inputs of that shape vary
Case(dim, sx, sy, sz, W) == [dim |-> dim, sx |-> sx, sy |-> sy, sz |-> sz, W |-> W]

\* the index of voxel (x, y, z) of a volume of the shape c
At(c, x, y, z) == x + c.sx * (y + c.sy * z)

---------------------------------------------------------------------------
(* multilabel_dilate on volumes of one block                               *)

DilateCases ==
    LET c3 == Case(3, 3, 3, 3, {})
        c2 == Case(2, 4, 3, 1, {})
    IN { [c3 EXCEPT !.W = {At(c3, 0, 0, 0), At(c3, 0, 1, 1), At(c3, 1, 1, 1),
                           At(c3, 2, 1, 1), At(c3, 1, 0, 2), At(c3, 1, 1, 2)}],
         [c2 EXCEPT !.W = {At(c2, 0, 0, 0), At(c2, 1, 0, 0), At(c2, 1, 1, 0),
                           At(c2, 2, 1, 0), At(c2, 3, 1, 0), At(c2, 2, 2, 0)}],
         Case(3, 2, 1, 2, 0 .. 3),
         Case(2, 1, 2, 1, 0 .. 1) }

InitDilate ==
    \E c \in DilateCases, bg \in BOOLEAN :
      \E L \in Inputs(c.sx * c.sy * c.sz, c.W, Labels, Labels) :
        Entry(Call("multilabel_dilate", c.dim, c.sx, c.sy, c.sz, bg, 1, "uint8"), L)

NextDilate == Driver \/ multilabel_dilate3_step \/ multilabel_dilate2_step

SpecDilate == InitDilate /\ [][NextDilate]_vars

---------------------------------------------------------------------------
(* The naive per-voxel evaluation the engines are compared with            *)

XOf(a, loc) == loc % a.sx

YOf(a, loc) == (loc \div a.sx) % a.sy

ZOf(a, loc) == loc \div (a.sx * a.sy)

\* the indexes of the in-bounds 3x3x3 (3x3 when sz = 1) neighbourhood of loc
Neighbourhood(a, loc) ==
    { x + a.sx * (y + a.sy * z) :
        x \in (XOf(a, loc) - 1 .. XOf(a, loc) + 1) \cap (0 .. a.sx - 1),
        y \in (YOf(a, loc) - 1 .. YOf(a, loc) + 1) \cap (0 .. a.sy - 1),
        z \in (ZOf(a, loc) - 1 .. ZOf(a, loc) + 1) \cap (0 .. a.sz - 1) }

Occurrences(a, L, loc, v) == Cardinality({n \in Neighbourhood(a, loc) : L[n] = v})

NonzeroLabels(a, L, loc) == {L[n] : n \in Neighbourhood(a, loc)} \ {0}

\* the nonzero labels of maximal multiplicity in the neighbourhood of loc
Modes(a, L, loc) ==
    {v \in NonzeroLabels(a, L, loc) :
        \A u \in NonzeroLabels(a, L, loc) :
            Occurrences(a, L, loc, u) <= Occurrences(a, L, loc, v)}

SetMin(S) == CHOOSE v \in S : \A u \in S : v <= u

SetMax(S) == CHOOSE v \in S : \A u \in S : v >= u

Returned == main.pc = "done"

---------------------------------------------------------------------------
(* Properties of multilabel_dilate                                         *)

DilateReturned(bg) ==
    Returned /\ args.op = "multilabel_dilate" /\ args.background_only = bg

\* C1: multilabel_dilate with background_only = false: once the call has
\* returned, every voxel whose in-bounds neighbourhood holds no nonzero label
\* is 0, and every other voxel holds a nonzero label whose number of
\* occurrences in its neighbourhood is maximal (3-D and 2-D overloads).
C1_DilateIsMode ==
    DilateReturned(FALSE) =>
        \A loc \in DOMAIN labels :
            IF NonzeroLabels(args, labels, loc) = {}
            THEN output[loc] = 0
            ELSE output[loc] \in Modes(args, labels, loc)

\* a returned 3-D call that went through the restricted refill or emitted a
\* pair of voxels from the general mode scan, on an input of several labels
C1_Witness ==
    /\ DilateReturned(FALSE)
    /\ args.dim = 3
    /\ {"mode", "pair"} \subseteq paths
    /\ \E i, j \in DOMAIN labels : labels[i] # 0 /\ labels[j] # 0 /\ labels[i] # labels[j]

\* C5: with background_only = true, every voxel that is nonzero in labels
\* holds its own label in output once the call has returned.
C5_BackgroundPreserved ==
    DilateReturned(TRUE) =>
        \A loc \in DOMAIN labels : labels[loc] # 0 => output[loc] = labels[loc]

\* the voxels whose value the tie-break decides: those the mode is computed for
Resolved(loc) == ~args.background_only \/ labels[loc] = 0

\* C10: when two or more nonzero labels share the maximal multiplicity in the
\* neighbourhood of a voxel that multilabel_dilate resolves, the smallest of
\* them is written.
C10_SmallestWins ==
    (Returned /\ args.op = "multilabel_dilate") =>
        \A loc \in DOMAIN labels :
            (Resolved(loc) /\ Cardinality(Modes(args, labels, loc)) >= 2)
                => output[loc] = SetMin(Modes(args, labels, loc))

\* a returned call with a voxel whose neighbourhood has a tie between two
\* labels that each occur at least twice
C10_Witness ==
    /\ Returned /\ args.op = "multilabel_dilate"
    /\ \E loc \in DOMAIN labels :
          /\ Resolved(loc)
          /\ Cardinality(Modes(args, labels, loc)) >= 2
          /\ \A v \in Modes(args, labels, loc) : Occurrences(args, labels, loc, v) >= 2
          /\ output[loc] = SetMin(Modes(args, labels, loc))

\* the voxels that multilabel_dilate resolves from a neighbourhood in which
\* two or more nonzero labels share the maximal multiplicity
Tied(loc) == Resolved(loc) /\ Cardinality(Modes(args, labels, loc)) >= 2

\* C11 as stated: a tie between equally frequent labels is broken in favour
\* of the label with the largest value.
C11_LargestWins ==
    (Returned /\ args.op = "multilabel_dilate") =>
        \A loc \in DOMAIN labels :
            Tied(loc) => output[loc] = SetMax(Modes(args, labels, loc))

\* C11 amended: a tie between equally frequent labels is broken in favour of
\* the label with the smallest value: the voxel holds one of the tied labels,
\* no tied label is smaller than it, and it is not the largest of them.
C11_TieGoesToSmallest ==
    (Returned /\ args.op = "multilabel_dilate") =>
        \A loc \in DOMAIN labels :
            Tied(loc) =>
                /\ output[loc] \in Modes(args, labels, loc)
                /\ \A v \in Modes(args, labels, loc) : output[loc] <= v
                /\ output[loc] # SetMax(Modes(args, labels, loc))

\* a returned 2-D call with a tied voxel that holds less than the largest
\* tied label
C11_Witness ==
    /\ Returned /\ args.op = "multilabel_dilate" /\ args.dim = 2
    /\ \E loc \in DOMAIN labels :
          Tied(loc) /\ output[loc] < SetMax(Modes(args, labels, loc))

---------------------------------------------------------------------------
(* multilabel_erode on volumes of one block                                *)

ErodeCases ==
    LET c3 == Case(3, 5, 4, 4, {})
        c2 == Case(2, 5, 4, 1, {})
        c1 == Case(3, 3, 3, 3, {})
    IN { [c3 EXCEPT !.W = {At(c3, 0, 1, 1), At(c3, 2, 1, 1), At(c3, 3, 2, 2),
                           At(c3, 2, 3, 1), At(c3, 2, 1, 3), At(c3, 4, 2, 2)}],
         [c2 EXCEPT !.W = {At(c2, 0, 1, 0), At(c2, 1, 1, 0), At(c2, 2, 2, 0),
                           At(c2, 3, 1, 0), At(c2, 3, 3, 0), At(c2, 4, 2, 0)}],
         [c1 EXCEPT !.W = {At(c1, 1, 1, 1), At(c1, 0, 0, 0), At(c1, 2, 2, 2)}],
         Case(3, 3, 3, 1, {4}),
         Case(3, 2, 1, 3, 0 .. 5),
         Case(2, 3, 3, 1, {0, 4, 5}),
         Case(2, 1, 2, 1, 0 .. 1) }

InitErode ==
    \E c \in ErodeCases :
      \E L \in Inputs(c.sx * c.sy * c.sz, c.W, Labels, Labels) :
        Entry(Call("multilabel_erode", c.dim, c.sx, c.sy, c.sz, FALSE, 1, "uint8"), L)

NextErode == Driver \/ multilabel_erode3_step \/ multilabel_erode2_step

SpecErode == InitErode /\ [][NextErode]_vars

\* the whole 3x3x3 (3x3 for the 2-D overload) neighbourhood of loc is in bounds
Interior(a, loc) ==
    Cardinality(Neighbourhood(a, loc)) = (IF a.dim = 3 THEN 27 ELSE 9)

\* C2: multilabel_erode: once the call has returned, a voxel holds its own
\* label if that label is nonzero, the voxel is off the outermost shell and all
\* of its neighbours carry the same label; every other voxel holds 0.
C2_ErodeIsUniform ==
    (Returned /\ args.op = "multilabel_erode") =>
        \A loc \in DOMAIN labels :
            output[loc] =
                IF /\ labels[loc] # 0
                   /\ Interior(args, loc)
                   /\ \A n \in Neighbourhood(args, loc) : labels[n] = labels[loc]
                THEN labels[loc] ELSE 0

\* a returned 3-D call that used a fast purity check, emitted a voxel and
\* skipped over an impure column
C2_Witness ==
    /\ Returned /\ args.op = "multilabel_erode" /\ args.dim = 3
    /\ {"fast_z", "fast_y", "emit", "skip2"} \subseteq paths
    /\ \E i, j \in DOMAIN labels : output[i] # 0 /\ labels[j] # labels[i]

---------------------------------------------------------------------------
(* grey_dilate and grey_erode on volumes of one block                      *)

LabelTypes == {"uint8", "int8"}

GreyCases ==
    LET c3 == Case(3, 3, 3, 3, {})
        c2 == Case(2, 4, 3, 1, {})
    IN { [c3 EXCEPT !.W = {At(c3, 0, 0, 0), At(c3, 1, 1, 1), At(c3, 2, 1, 1),
                           At(c3, 1, 0, 2)}],
         [c2 EXCEPT !.W = {At(c2, 0, 0, 0), At(c2, 1, 1, 0), At(c2, 3, 1, 0),
                           At(c2, 2, 2, 0)}],
         Case(3, 3, 1, 1, 0 .. 2),
         Case(2, 3, 1, 1, 0 .. 2) }

InitGrey(op) ==
    \E c \in GreyCases, t \in LabelTypes :
      \E L \in Inputs(c.sx * c.sy * c.sz, c.W, GreyValues(t), GreyValues(t)) :
        Entry(Call(op, c.dim, c.sx, c.sy, c.sz, FALSE, 1, t), L)

InitGreyDilate == InitGrey("grey_dilate")

NextGreyDilate == Driver \/ grey_dilate3_step \/ grey_dilate2_step

SpecGreyDilate == InitGreyDilate /\ [][NextGreyDilate]_vars

InitGreyErode == InitGrey("grey_erode")

NextGreyErode == Driver \/ grey_erode3_step \/ grey_erode2_step

SpecGreyErode == InitGreyErode /\ [][NextGreyErode]_vars

NeighbourValues(a, L, loc) == {L[n] : n \in Neighbourhood(a, loc)}

\* C3: grey_dilate: once the call has returned, every voxel of the output
\* holds the maximum of the labels over its in-bounds neighbourhood, for
\* every element type and also when the input holds the type's maximum.
C3_GreyDilateIsMax ==
    (Returned /\ args.op = "grey_dilate") =>
        \A loc \in DOMAIN labels :
            output[loc] = SetMax(NeighbourValues(args, labels, loc))

\* C4: grey_erode: once the call has returned, every voxel of the output
\* holds the minimum of the labels over its in-bounds neighbourhood, for
\* signed and unsigned element types and also when the input holds the
\* type's minimum.
C4_GreyErodeIsMin ==
    (Returned /\ args.op = "grey_erode") =>
        \A loc \in DOMAIN labels :
            output[loc] = SetMin(NeighbourValues(args, labels, loc))

---------------------------------------------------------------------------
(* multilabel_dilate on a volume of two blocks along x                     *)

\* calls are made with 1 .. MaxThreads threads
MaxThreads == 2

\* the closures run one after the other in the order of the enqueue loops
RECURSIVE run_row(_, _, _, _, _)
run_row(a, L, O, b, f) ==
    LET r == block_iter(a, L, O, b, f)
    IN IF r.f.fin \/ r.f.y # f.y \/ r.f.z # f.z THEN r
       ELSE run_row(a, L, r.out, b, r.f)

RECURSIVE run_block(_, _, _, _, _)
run_block(a, L, O, b, f) ==
    IF f.fin THEN O
    ELSE LET r == run_row(a, L, O, b, f)
         IN run_block(a, L, r.out, b, r.f)

RECURSIVE run_serial(_, _, _, _)
run_serial(a, L, O, g) ==
    IF g >= grid_x(a) * grid_y(a) * grid_z(a) THEN O
    ELSE LET b == block_bounds(a, g % grid_x(a),
                               (g \div grid_x(a)) % grid_y(a),
                               g \div (grid_x(a) * grid_y(a)))
         IN run_serial(a, L, run_block(a, L, O, b, block_entry(a, b)), g + 1)

TwoBlockCases ==
    LET c == Case(3, 65, 3, 3, {})
    IN { [c EXCEPT !.W = {At(c, 63, 1, 1), At(c, 64, 1, 1)}] }

InitTwoBlocks ==
    \E c \in TwoBlockCases, bg \in BOOLEAN, T \in 1 .. MaxThreads :
      \E L \in Inputs(c.sx * c.sy * c.sz, c.W, {MaxLabel}, Labels) :
        Entry(Call("multilabel_dilate", c.dim, c.sx, c.sy, c.sz, bg, T, "uint8"), L)

NextTwoBlocks == Driver \/ multilabel_dilate3_step

SpecTwoBlocks == InitTwoBlocks /\ [][NextTwoBlocks]_vars

\* the voxel loc lies inside the bounds b of a block
InBlock(a, b, loc) ==
    /\ b.xs <= XOf(a, loc) /\ XOf(a, loc) < b.xe
    /\ b.ys <= YOf(a, loc) /\ YOf(a, loc) < b.ye
    /\ b.zs <= ZOf(a, loc) /\ ZOf(a, loc) < b.ze

\* C6: determinism: whatever the worker count and the interleaving of the
\* block closures, the output of a returned call is the output of the run
\* that executes the closures one after the other.
C6_Deterministic ==
    Returned => output = run_serial(args, labels, [i \in DOMAIN labels |-> 0], 0)

\* C7: every write of a block closure to output lands inside the bounds of
\* its own block, and no output cell is written by two different blocks.
C7_WritesInOwnBlock ==
    /\ \A t \in DOMAIN tasks : \A loc \in wlog[t] : InBlock(args, tasks[t].b, loc)
    /\ \A t, u \in DOMAIN tasks : t # u => wlog[t] \cap wlog[u] = {}

---------------------------------------------------------------------------
(* parallelize_blocks alone, with a closure that does nothing              *)

\* an axis spans up to MaxGrid whole blocks, give or take one voxel
MaxGrid == 2

AxisSizes(B) == {1, 2} \cup {g * B + d : g \in 1 .. MaxGrid, d \in {-1, 0, 1}}

\* grids of several cells along every axis are run with at most one pool
\* thread, grids along x alone with up to MaxThreads + 1
InitDriver ==
    \E sz \in {1, 2, 65}, off \in {0, 1}, T \in 0 .. MaxThreads + 1 :
      LET B == IF sz > 1 THEN 64 ELSE 512
      IN \E sx \in AxisSizes(B), sy \in {1, B + 1} :
           /\ T <= 1 \/ (sy = 1 /\ sz <= 2)
           /\ Entry(DriverCall(sx, sy, sz, T, off), <<>>)

NextDriver == Driver

SpecDriver == InitDriver /\ [][NextDriver]_vars

\* the least n >= 1 with n * B >= s
CeilGrid(s, B) == CHOOSE n \in 1 .. s : n * B >= s /\ (n = 1 \/ (n - 1) * B < s)

Enqueued == main.pc # "enqueue"

NonEmpty(b) == b.xs < b.xe /\ b.ys < b.ye /\ b.zs < b.ze

BoxVolume(b) == (b.xe - b.xs) * (b.ye - b.ys) * (b.ze - b.zs)

Apart(lo1, hi1, lo2, hi2) == hi1 <= lo2 \/ hi2 <= lo1

BoxesDisjoint(b, c) ==
    \/ Apart(b.xs, b.xe, c.xs, c.xe)
    \/ Apart(b.ys, b.ye, c.ys, c.ye)
    \/ Apart(b.zs, b.ze, c.zs, c.ze)

InteriorLength(s, off) == IF s - off > off THEN s - 2 * off ELSE 0

RECURSIVE SumVolumes(_, _)
SumVolumes(T, i) ==
    IF i > Len(T) THEN 0
    ELSE (IF NonEmpty(T[i].b) THEN BoxVolume(T[i].b) ELSE 0) + SumVolumes(T, i + 1)

\* C8: parallelize_blocks: the block edge is 64 if sz > 1 else 512, each
\* axis gets max(ceil(s/B),1) grid cells, each grid cell is enqueued exactly
\* once with start = max(offset, g*B) and end = min((g+1)*B, s - offset), and
\* the non-empty blocks are pairwise disjoint and cover exactly the interior
\* [offset, s - offset) of every axis.
C8_BlocksPartitionInterior ==
    Enqueued =>
        LET B == IF args.sz > 1 THEN 64 ELSE 512
            off == args.offset
            GX == CeilGrid(args.sx, B)
            GY == CeilGrid(args.sy, B)
            GZ == CeilGrid(args.sz, B)
            full == {t \in DOMAIN tasks : NonEmpty(tasks[t].b)}
        IN /\ Len(tasks) = GX * GY * GZ
           /\ \A gx \in 0 .. GX - 1, gy \in 0 .. GY - 1, gz \in 0 .. GZ - 1 :
                 tasks[1 + gx + GX * (gy + GY * gz)].b =
                     [xs |-> Max(off, gx * B), xe |-> Min((gx + 1) * B, args.sx - off),
                      ys |-> Max(off, gy * B), ye |-> Min((gy + 1) * B, args.sy - off),
                      zs |-> Max(off, gz * B), ze |-> Min((gz + 1) * B, args.sz - off)]
           /\ \A t, u \in full : t # u => BoxesDisjoint(tasks[t].b, tasks[u].b)
           /\ \A t \in full :
                 /\ off <= tasks[t].b.xs /\ tasks[t].b.xe <= args.sx - off
                 /\ off <= tasks[t].b.ys /\ tasks[t].b.ye <= args.sy - off
                 /\ off <= tasks[t].b.zs /\ tasks[t].b.ze <= args.sz - off
           /\ SumVolumes(tasks, 1) = InteriorLength(args.sx, off)
                                     * InteriorLength(args.sy, off)
                                     * InteriorLength(args.sz, off)

\* all cells of a grid of more than one cell per axis are enqueued, for an
\* erosion-style call whose last block along x is empty
C8_Witness ==
    /\ Enqueued /\ args.offset = 1
    /\ grid_x(args) > 1 /\ grid_y(args) > 1 /\ grid_z(args) > 1
    /\ \E t \in DOMAIN tasks : ~NonEmpty(tasks[t].b)
    /\ \E t \in DOMAIN tasks : NonEmpty(tasks[t].b) /\ tasks[t].b.xs > 1

\* C9: fork-join: the pool has min(T, grid_x*grid_y*grid_z) workers, no
\* closure is run twice or held by two workers, and once parallelize_blocks
\* has returned every enqueued closure has run exactly once and finished.
C9_ForkJoin ==
    LET G == CeilGrid(args.sx, block_size(args)) * CeilGrid(args.sy, block_size(args))
             * CeilGrid(args.sz, block_size(args))
    IN /\ Cardinality(DOMAIN workers \ {0}) = Min(args.threads, G)
       /\ \A t \in DOMAIN tasks :
             /\ tasks[t].runs <= 1
             /\ Cardinality({w \in DOMAIN workers : workers[w] = t}) <= 1
             /\ (tasks[t].st = "running") <=> (\E w \in DOMAIN workers : workers[w] = t)
       /\ Returned =>
             /\ Len(tasks) = G
             /\ \A t \in DOMAIN tasks : tasks[t].runs = 1 /\ tasks[t].st = "done"

\* a returned call whose closures were shared between two pool workers, with
\* fewer workers than threads asked for
C9_Witness ==
    /\ Returned
    /\ \E t, u \in DOMAIN tasks : tasks[t].by # tasks[u].by
    /\ \E t \in DOMAIN tasks : tasks[t].by = 2
    /\ Cardinality(DOMAIN workers \ {0}) < args.threads

\* the value at which an engine stops looking: the type's maximum for
\* grey_dilate, its minimum for grey_erode
Sentinel(a) == IF a.op = "grey_dilate" THEN MAX_LABEL(a.ltype) ELSE MIN_LABEL(a.ltype)

\* C12: saturation: once a grey_dilate or grey_erode call has returned, every
\* voxel whose centre value already equals the sentinel holds the sentinel.
C12_SentinelKept ==
    (Returned /\ args.op \in {"grey_dilate", "grey_erode"}) =>
        \A loc \in DOMAIN labels :
            labels[loc] = Sentinel(args) => output[loc] = Sentinel(args)

\* C13: monotonicity: once the call has returned, grey_dilate has left no
\* voxel below its input value and grey_erode has left none above it.
C13_GreyMonotone ==
    /\ (Returned /\ args.op = "grey_dilate") =>
           \A i \in DOMAIN labels : output[i] >= labels[i]
    /\ (Returned /\ args.op = "grey_erode") =>
           \A i \in DOMAIN labels : output[i] <= labels[i]

\* the complement of v within the width of an unsigned element type
Complement(t, v) == MAX_LABEL(t) - v

\* what grey_erode returns for the complemented input of the call
ErodedComplement ==
    run_serial([args EXCEPT !.op = "grey_erode"],
               [i \in DOMAIN labels |-> Complement(args.ltype, labels[i])],
               [i \in DOMAIN labels |-> 0], 0)

\* C14: duality: for an unsigned element type, what grey_dilate returns is
\* the complement of what grey_erode returns for the complemented input.
C14_GreyDuality ==
    (Returned /\ args.op = "grey_dilate" /\ args.ltype = "uint8") =>
        output = [i \in DOMAIN labels |-> Complement(args.ltype, ErodedComplement[i])]

---------------------------------------------------------------------------
(* multilabel_dilate and multilabel_erode on uniformly filled volumes      *)

UniformCases ==
    { Case(3, 3, 3, 3, {}), Case(3, 5, 4, 4, {}), Case(3, 3, 3, 1, {}),
      Case(3, 1, 1, 1, {}), Case(3, 2, 1, 3, {}), Case(3, 65, 3, 3, {}),
      Case(2, 4, 3, 1, {}), Case(2, 5, 4, 1, {}), Case(2, 1, 2, 1, {}) }

InitUniform ==
    \E c \in UniformCases, v \in 1 .. MaxLabel, bg \in BOOLEAN, T \in 1 .. MaxThreads,
       op \in {"multilabel_dilate", "multilabel_erode"} :
        /\ op = "multilabel_erode" => ~bg
        /\ Entry(Call(op, c.dim, c.sx, c.sy, c.sz, bg, T, "uint8"),
                 [i \in 0 .. c.sx * c.sy * c.sz - 1 |-> v])

NextUniform ==
    \/ Driver
    \/ multilabel_dilate3_step \/ multilabel_dilate2_step
    \/ multilabel_erode3_step \/ multilabel_erode2_step

SpecUniform == InitUniform /\ [][NextUniform]_vars

\* labels is filled with a single nonzero label
UniformNonzero == \E v \in 1 .. MaxLabel : \A i \in DOMAIN labels : labels[i] = v

\* C15: on a volume filled with a single nonzero label, a returned
\* multilabel_dilate call (either background_only setting) has output equal
\* to labels, and a returned multilabel_erode call has output equal to labels
\* off the outermost one-voxel shell and 0 on it.
C15_UniformInput ==
    (Returned /\ UniformNonzero) =>
        /\ args.op = "multilabel_dilate" => output = labels
        /\ args.op = "multilabel_erode" =>
               \A loc \in DOMAIN labels :
                   output[loc] = IF Interior(args, loc) THEN labels[loc] ELSE 0

\* a returned dilation of a uniform volume of two blocks along x that took
\* the pair-emit, with the whole output filled
C15_Witness ==
    /\ Returned /\ UniformNonzero
    /\ args.op = "multilabel_dilate" /\ ~args.background_only
    /\ grid_x(args) > 1 /\ "pair" \in paths
    /\ output = labels

---------------------------------------------------------------------------
(* fastmorph::sort and its sorting networks (sort.hpp).  The vector is     *)
(* labels, sorted in place; args keeps the vector it was called with.      *)

\* mutant: the pair is swapped when it is in order
cmp_swap_in_order(v, x, y) ==
    IF v[x + 1] < v[y + 1]
    THEN [v EXCEPT ![x + 1] = v[y + 1], ![y + 1] = v[x + 1]] ELSE v

\* CMP_SWAP(x,y), on 0-based positions
cmp_swap(v, x, y) ==
    IF v[x + 1] > v[y + 1]
    THEN [v EXCEPT ![x + 1] = v[y + 1], ![y + 1] = v[x + 1]] ELSE v

\* the CMP_SWAP pairs of sorting_network_2, in program order
sorting_network_2 ==
    << <<0, 1>> >>

\* the CMP_SWAP pairs of sorting_network_3, in program order
sorting_network_3 ==
    << <<0, 2>>, <<0, 1>>, <<1, 2>> >>

\* the CMP_SWAP pairs of sorting_network_4, in program order
sorting_network_4 ==
    << <<0, 2>>, <<1, 3>>, <<0, 1>>, <<2, 3>>, <<1, 2>> >>

\* the CMP_SWAP pairs of sorting_network_5, in program order
sorting_network_5 ==
    << <<0, 3>>, <<1, 4>>, <<0, 2>>, <<1, 3>>, <<0, 1>>, <<2, 4>>, <<1, 2>>, <<3, 4>>,
       <<2, 3>> >>

\* the CMP_SWAP pairs of sorting_network_6, in program order
sorting_network_6 ==
    << <<0, 5>>, <<1, 3>>, <<2, 4>>, <<1, 2>>, <<3, 4>>, <<0, 3>>, <<2, 5>>, <<0, 1>>,
       <<2, 3>>, <<4, 5>>, <<1, 2>>, <<3, 4>> >>

\* the CMP_SWAP pairs of sorting_network_7, in program order
sorting_network_7 ==
    << <<0, 6>>, <<2, 3>>, <<4, 5>>, <<0, 2>>, <<1, 4>>, <<3, 6>>, <<0, 1>>, <<2, 5>>,
       <<3, 4>>, <<1, 2>>, <<4, 6>>, <<2, 3>>, <<4, 5>>, <<1, 2>>, <<3, 4>>, <<5, 6>> >>

\* the CMP_SWAP pairs of sorting_network_8, in program order
sorting_network_8 ==
    << <<0, 2>>, <<1, 3>>, <<4, 6>>, <<5, 7>>, <<0, 4>>, <<1, 5>>, <<2, 6>>, <<3, 7>>,
       <<0, 1>>, <<2, 3>>, <<4, 5>>, <<6, 7>>, <<2, 4>>, <<3, 5>>, <<1, 4>>, <<3, 6>>,
       <<1, 2>>, <<3, 4>>, <<5, 6>> >>

\* the CMP_SWAP pairs of sorting_network_9, in program order
sorting_network_9 ==
    << <<0, 3>>, <<1, 7>>, <<2, 5>>, <<4, 8>>, <<0, 7>>, <<2, 4>>, <<3, 8>>, <<5, 6>>,
       <<0, 2>>, <<1, 3>>, <<4, 5>>, <<7, 8>>, <<1, 4>>, <<3, 6>>, <<5, 7>>, <<0, 1>>,
       <<2, 4>>, <<3, 5>>, <<6, 8>>, <<2, 3>>, <<4, 5>>, <<6, 7>>, <<1, 2>>, <<3, 4>>,
       <<5, 6>> >>

\* the CMP_SWAP pairs of sorting_network_10, in program order
sorting_network_10 ==
    << <<0, 8>>, <<1, 9>>, <<2, 7>>, <<3, 5>>, <<4, 6>>, <<0, 2>>, <<1, 4>>, <<5, 8>>,
       <<7, 9>>, <<0, 3>>, <<2, 4>>, <<5, 7>>, <<6, 9>>, <<0, 1>>, <<3, 6>>, <<8, 9>>,
       <<1, 5>>, <<2, 3>>, <<4, 8>>, <<6, 7>>, <<1, 2>>, <<3, 5>>, <<4, 6>>, <<7, 8>>,
       <<2, 3>>, <<4, 5>>, <<6, 7>>, <<3, 4>>, <<5, 6>> >>

\* the CMP_SWAP pairs of sorting_network_11, in program order
sorting_network_11 ==
    << <<0, 9>>, <<1, 6>>, <<2, 4>>, <<3, 7>>, <<5, 8>>, <<0, 1>>, <<3, 5>>, <<4, 10>>,
       <<6, 9>>, <<7, 8>>, <<1, 3>>, <<2, 5>>, <<4, 7>>, <<8, 10>>, <<0, 4>>, <<1, 2>>,
       <<3, 7>>, <<5, 9>>, <<6, 8>>, <<0, 1>>, <<2, 6>>, <<4, 5>>, <<7, 8>>, <<9, 10>>,
       <<2, 4>>, <<3, 6>>, <<5, 7>>, <<8, 9>>, <<1, 2>>, <<3, 4>>, <<5, 6>>, <<7, 8>>,
       <<2, 3>>, <<4, 5>>, <<6, 7>> >>

\* the CMP_SWAP pairs of sorting_network_12, in program order
sorting_network_12 ==
    << <<0, 8>>, <<1, 7>>, <<2, 6>>, <<3, 11>>, <<4, 10>>, <<5, 9>>, <<0, 1>>, <<2, 5>>,
       <<3, 4>>, <<6, 9>>, <<7, 8>>, <<10, 11>>, <<0, 2>>, <<1, 6>>, <<5, 10>>, <<9, 11>>,
       <<0, 3>>, <<1, 2>>, <<4, 6>>, <<5, 7>>, <<8, 11>>, <<9, 10>>, <<1, 4>>, <<3, 5>>,
       <<6, 8>>, <<7, 10>>, <<1, 3>>, <<2, 5>>, <<6, 9>>, <<8, 10>>, <<2, 3>>, <<4, 5>>,
       <<6, 7>>, <<8, 9>>, <<4, 6>>, <<5, 7>>, <<3, 4>>, <<5, 6>>, <<7, 8>> >>

\* the CMP_SWAP pairs of sorting_network_18, in program order
sorting_network_18 ==
    << <<0, 1>>, <<2, 3>>, <<4, 5>>, <<6, 7>>, <<8, 9>>, <<10, 11>>, <<12, 13>>, <<14, 15>>,
       <<16, 17>>, <<0, 2>>, <<1, 3>>, <<4, 12>>, <<5, 13>>, <<6, 8>>, <<9, 11>>, <<14, 16>>,
       <<15, 17>>, <<0, 14>>, <<1, 16>>, <<2, 15>>, <<3, 17>>, <<0, 6>>, <<1, 10>>, <<2, 9>>,
       <<7, 16>>, <<8, 15>>, <<11, 17>>, <<1, 4>>, <<3, 9>>, <<5, 7>>, <<8, 14>>, <<10, 12>>,
       <<13, 16>>, <<0, 1>>, <<2, 5>>, <<3, 13>>, <<4, 14>>, <<7, 9>>, <<8, 10>>, <<12, 15>>,
       <<16, 17>>, <<1, 2>>, <<3, 5>>, <<4, 6>>, <<11, 13>>, <<12, 14>>, <<15, 16>>, <<4, 8>>,
       <<5, 12>>, <<6, 10>>, <<7, 11>>, <<9, 13>>, <<1, 4>>, <<2, 8>>, <<3, 6>>, <<5, 7>>,
       <<9, 15>>, <<10, 12>>, <<11, 14>>, <<13, 16>>, <<2, 4>>, <<5, 8>>, <<6, 10>>, <<7, 11>>,
       <<9, 12>>, <<13, 15>>, <<3, 5>>, <<6, 8>>, <<7, 10>>, <<9, 11>>, <<12, 14>>, <<3, 4>>,
       <<5, 6>>, <<7, 8>>, <<9, 10>>, <<11, 12>>, <<13, 14>> >>

\* the CMP_SWAP pairs of sorting_network_26, in program order
sorting_network_26 ==
    << <<0, 1>>, <<2, 3>>, <<4, 5>>, <<6, 7>>, <<8, 9>>, <<10, 11>>, <<12, 13>>, <<14, 15>>,
       <<16, 17>>, <<18, 19>>, <<20, 21>>, <<22, 23>>, <<24, 25>>, <<0, 2>>, <<1, 3>>, <<4, 6>>,
       <<5, 7>>, <<8, 10>>, <<9, 11>>, <<14, 16>>, <<15, 17>>, <<18, 20>>, <<19, 21>>, <<22, 24>>,
       <<23, 25>>, <<0, 4>>, <<1, 6>>, <<2, 5>>, <<3, 7>>, <<8, 14>>, <<9, 16>>, <<10, 15>>,
       <<11, 17>>, <<18, 22>>, <<19, 24>>, <<20, 23>>, <<21, 25>>, <<0, 18>>, <<1, 19>>, <<2, 20>>,
       <<3, 21>>, <<4, 22>>, <<5, 23>>, <<6, 24>>, <<7, 25>>, <<9, 12>>, <<13, 16>>, <<3, 11>>,
       <<8, 9>>, <<10, 13>>, <<12, 15>>, <<14, 22>>, <<16, 17>>, <<0, 8>>, <<1, 9>>, <<2, 14>>,
       <<6, 12>>, <<7, 15>>, <<10, 18>>, <<11, 23>>, <<13, 19>>, <<16, 24>>, <<17, 25>>, <<1, 2>>,
       <<3, 18>>, <<4, 8>>, <<7, 22>>, <<17, 21>>, <<23, 24>>, <<3, 14>>, <<4, 10>>, <<5, 18>>,
       <<7, 20>>, <<8, 13>>, <<11, 22>>, <<12, 17>>, <<15, 21>>, <<1, 4>>, <<5, 6>>, <<7, 9>>,
       <<8, 10>>, <<15, 17>>, <<16, 18>>, <<19, 20>>, <<21, 24>>, <<2, 5>>, <<3, 10>>, <<6, 14>>,
       <<9, 13>>, <<11, 19>>, <<12, 16>>, <<15, 22>>, <<20, 23>>, <<2, 8>>, <<5, 7>>, <<6, 9>>,
       <<11, 12>>, <<13, 14>>, <<16, 19>>, <<17, 23>>, <<18, 20>>, <<2, 4>>, <<3, 5>>, <<6, 11>>,
       <<7, 10>>, <<9, 16>>, <<12, 13>>, <<14, 19>>, <<15, 18>>, <<20, 22>>, <<21, 23>>, <<3, 4>>,
       <<5, 8>>, <<6, 7>>, <<9, 11>>, <<10, 12>>, <<13, 15>>, <<14, 16>>, <<17, 20>>, <<18, 19>>,
       <<21, 22>>, <<5, 6>>, <<7, 8>>, <<9, 10>>, <<11, 12>>, <<13, 14>>, <<15, 16>>, <<17, 18>>,
       <<19, 20>>, <<4, 5>>, <<6, 7>>, <<8, 9>>, <<10, 11>>, <<12, 13>>, <<14, 15>>, <<16, 17>>,
       <<18, 19>>, <<20, 21>> >>

\* the CMP_SWAP pairs of sorting_network_27, in program order
sorting_network_27 ==
    << <<0, 1>>, <<2, 3>>, <<4, 5>>, <<6, 7>>, <<8, 9>>, <<10, 11>>, <<12, 13>>, <<14, 15>>,
       <<16, 17>>, <<18, 19>>, <<20, 21>>, <<22, 23>>, <<24, 25>>, <<0, 2>>, <<1, 3>>, <<4, 6>>,
       <<5, 7>>, <<8, 10>>, <<9, 11>>, <<14, 16>>, <<15, 17>>, <<18, 20>>, <<19, 21>>, <<22, 24>>,
       <<23, 25>>, <<0, 4>>, <<1, 5>>, <<2, 6>>, <<3, 7>>, <<8, 14>>, <<9, 16>>, <<10, 13>>,
       <<11, 17>>, <<12, 15>>, <<18, 22>>, <<19, 23>>, <<20, 24>>, <<21, 25>>, <<0, 18>>, <<1, 19>>,
       <<2, 20>>, <<3, 21>>, <<4, 22>>, <<5, 23>>, <<6, 24>>, <<7, 25>>, <<8, 12>>, <<10, 14>>,
       <<11, 15>>, <<13, 17>>, <<1, 18>>, <<2, 10>>, <<3, 20>>, <<4, 8>>, <<5, 22>>, <<6, 14>>,
       <<7, 24>>, <<9, 12>>, <<11, 19>>, <<13, 16>>, <<15, 23>>, <<17, 21>>, <<0, 4>>, <<1, 9>>,
       <<3, 13>>, <<5, 15>>, <<6, 18>>, <<7, 19>>, <<8, 11>>, <<10, 20>>, <<12, 22>>, <<14, 17>>,
       <<16, 24>>, <<21, 25>>, <<2, 4>>, <<3, 11>>, <<5, 9>>, <<10, 12>>, <<13, 15>>, <<14, 22>>,
       <<16, 20>>, <<21, 23>>, <<1, 4>>, <<3, 8>>, <<6, 10>>, <<7, 13>>, <<9, 11>>, <<12, 18>>,
       <<14, 16>>, <<15, 19>>, <<17, 22>>, <<21, 24>>, <<1, 2>>, <<3, 6>>, <<4, 5>>, <<7, 12>>,
       <<8, 10>>, <<9, 14>>, <<11, 16>>, <<13, 18>>, <<15, 17>>, <<19, 22>>, <<20, 21>>, <<23, 24>>,
       <<2, 3>>, <<4, 6>>, <<5, 10>>, <<7, 9>>, <<11, 13>>, <<12, 14>>, <<15, 20>>, <<16, 18>>,
       <<19, 21>>, <<22, 23>>, <<3, 4>>, <<5, 6>>, <<7, 8>>, <<9, 10>>, <<11, 12>>, <<13, 14>>,
       <<15, 16>>, <<17, 18>>, <<19, 20>>, <<21, 22>>, <<5, 7>>, <<6, 8>>, <<9, 11>>, <<10, 12>>,
       <<13, 15>>, <<14, 16>>, <<17, 19>>, <<18, 20>>, <<4, 5>>, <<6, 7>>, <<8, 9>>, <<10, 11>>,
       <<12, 13>>, <<14, 15>>, <<16, 17>>, <<18, 19>>, <<20, 21>> >>

\* the compare-swaps lo .. hi of a network applied to v in program order
\* (the first half, then the second half on the vector the first half left;
\* a compare-swap never changes the length)
RECURSIVE apply_network(_, _, _, _)
apply_network(net, v, lo, hi) ==
    IF lo > hi THEN v
    ELSE IF lo = hi THEN cmp_swap(v, net[lo][1], net[lo][2])
    ELSE LET mid == (lo + hi) \div 2
             w == apply_network(net, v, lo, mid)
         IN IF Len(w) = Len(v) THEN apply_network(net, w, mid + 1, hi) ELSE w

\* switch (labels.size()) of fastmorph::sort
sort(v) ==
    LET n == Len(v)
    IN CASE n \in {0, 1} -> v
         [] n = 2 -> apply_network(sorting_network_2, v, 1, Len(sorting_network_2))
         [] n = 3 -> apply_network(sorting_network_3, v, 1, Len(sorting_network_3))
         [] n = 4 -> apply_network(sorting_network_4, v, 1, Len(sorting_network_4))
         [] n = 5 -> apply_network(sorting_network_5, v, 1, Len(sorting_network_5))
         [] n = 6 -> apply_network(sorting_network_6, v, 1, Len(sorting_network_6))
         [] n = 7 -> apply_network(sorting_network_7, v, 1, Len(sorting_network_7))
         [] n = 8 -> apply_network(sorting_network_8, v, 1, Len(sorting_network_8))
         [] n = 9 -> apply_network(sorting_network_9, v, 1, Len(sorting_network_9))
         [] n = 10 -> apply_network(sorting_network_10, v, 1, Len(sorting_network_10))
         [] n = 11 -> apply_network(sorting_network_11, v, 1, Len(sorting_network_11))
         [] n = 12 -> apply_network(sorting_network_12, v, 1, Len(sorting_network_12))
         [] n = 18 -> apply_network(sorting_network_18, v, 1, Len(sorting_network_18))
         [] n = 26 -> apply_network(sorting_network_26, v, 1, Len(sorting_network_26))
         [] n = 27 -> apply_network(sorting_network_27, v, 1, Len(sorting_network_27))
         [] OTHER -> Sorted(v)

\* the state on entry to fastmorph::sort(labels)
SortEntry(v) ==
    /\ args = [op |-> "sort", input |-> v]
    /\ labels = v
    /\ output = <<>>
    /\ main = [pc |-> "call"]
    /\ tasks = <<>>
    /\ queue = <<>>
    /\ workers = [w \in {0} |-> 0]
    /\ wlog = <<>>
    /\ paths = {}

\* the call of fastmorph::sort
sort_call ==
    /\ main.pc = "call"
    /\ labels' = sort(labels)
    /\ main' = [main EXCEPT !.pc = "done"]
    /\ UNCHANGED <<args, output, tasks, queue, workers, wlog, paths>>

\* vectors of more than two values have at most MaxSortLen elements
MaxSortLen == 6

\* the lengths served by sorting_network_2 .. 12 and 18, and the trivial ones
NetworkLengths == (0 .. 12) \cup {18}

\* every vector of zeros and ones of the lengths 0 .. 12 and 18, and every
\* vector over 0 .. MaxLabel of at most MaxSortLen elements
InitSort ==
    \/ \E n \in NetworkLengths : \E v \in [1 .. n -> {0, 1}] : SortEntry(v)
    \/ \E n \in 0 .. MaxSortLen : \E v \in [1 .. n -> Labels] : SortEntry(v)

NextSort == sort_call

SpecSort == InitSort /\ [][NextSort]_vars

\* the vectors of 26 and 27 elements that differ from an all-zeros or an
\* all-ones vector in at most MaxDiff positions
InitSortWide ==
    \E n \in {26, 27}, b \in {0, 1} :
      \E v \in Perturb({[i \in 1 .. n |-> b]}, 1 .. n, {0, 1}, MaxDiff) : SortEntry(v)

NextSortWide == sort_call

SpecSortWide == InitSortWide /\ [][NextSortWide]_vars

Ascending(v) == \A i \in 1 .. Len(v) - 1 : v[i] <= v[i + 1]

Count(v, x) == Cardinality({i \in DOMAIN v : v[i] = x})

SameMultiset(u, v) ==
    /\ Len(u) = Len(v)
    /\ \A x \in {u[i] : i \in DOMAIN u} : Count(u, x) = Count(v, x)

SortReturned == Returned /\ args.op = "sort"

\* C16: after fastmorph::sort on a vector of length 0 .. 12 or 18 the vector
\* is in ascending order and holds the same multiset of values as before.
C16_NetworksSort ==
    (SortReturned /\ Len(args.input) \in NetworkLengths) =>
        Ascending(labels) /\ SameMultiset(args.input, labels)

\* a vector of 18 elements that was out of order and has been sorted
C16_Witness ==
    /\ SortReturned /\ Len(args.input) = 18
    /\ ~Ascending(args.input) /\ Ascending(labels)
    /\ args.input[1] = 1 /\ args.input[18] = 0

\* C17: after fastmorph::sort on a vector of length 26 or 27 the vector is in
\* ascending order and holds the same multiset of values as before.
C17_WideNetworksSort ==
    (SortReturned /\ Len(args.input) \in {26, 27}) =>
        Ascending(labels) /\ SameMultiset(args.input, labels)

---------------------------------------------------------------------------
(* The engines on volumes with an axis of size 0                           *)

ZeroAxisSizes == {0, 1, 3}

Engines == {"multilabel_dilate", "multilabel_erode", "grey_dilate", "grey_erode"}

\* every engine, 2-D and 3-D, on an empty volume with sx = 0 or sy = 0
InitZero ==
    \E op \in Engines, dim \in {2, 3}, sx, sy, sz \in ZeroAxisSizes,
       bg \in BOOLEAN, T \in 0 .. MaxThreads :
      /\ sx = 0 \/ sy = 0
      /\ dim = 2 => sz = 1
      /\ op # "multilabel_dilate" => ~bg
      /\ Entry(Call(op, dim, sx, sy, sz, bg, T, "uint8"), <<>>)

\* the closures of the dilations and of the grey operators start with
\* xe = min(B, 0) or ye = min(B, 0) and have no iteration to run
NextZero == Driver \/ multilabel_erode3_step \/ multilabel_erode2_step

SpecZero == InitZero /\ [][NextZero]_vars

ZeroSized == args.op \in Engines /\ (args.sx = 0 \/ args.sy = 0)

NoClosureEnqueued == tasks = <<>>

NothingTouched ==
    /\ "out_of_bounds" \notin paths
    /\ main.pc # "fault"
    /\ \A t \in DOMAIN wlog : wlog[t] = {}

\* C18: an engine called with sx = 0 or sy = 0 enqueues no closure, reads
\* nothing, writes nothing and does not fail, the erosion with offset = 1
\* included.
C18_ZeroSizedAxes == ZeroSized => NoClosureEnqueued /\ NothingTouched

---------------------------------------------------------------------------
(* multilabel_dilate handed buffers that do not fit the shape              *)

\* the state on entry to parallelize_blocks when the caller allocated m cells
\* of output
EntryInto(a, L, m) ==
    /\ args = a
    /\ labels = L
    /\ output = [i \in 0 .. m - 1 |-> 0]
    /\ main = [pc |-> "enqueue", gx |-> 0, gy |-> 0, gz |-> 0]
    /\ tasks = <<>>
    /\ queue = <<>>
    /\ workers = [w \in 0 .. real_threads(a) |-> 0]
    /\ wlog = <<>>
    /\ paths = {}

\* shapes of one slice: their closures store to output and never load from it
InvalidCases ==
    { Case(3, 3, 1, 1, {}), Case(3, 2, 2, 1, {}), Case(2, 3, 1, 1, {}),
      Case(2, 2, 2, 1, {}) }

\* labels == nullptr with a full output buffer, or a full labels buffer with
\* output == nullptr or an output buffer of fewer than sx * sy * sz cells
InitInvalid ==
    \E c \in InvalidCases, bg \in BOOLEAN, T \in 0 .. MaxThreads :
      LET n == c.sx * c.sy * c.sz
          a == Call("multilabel_dilate", c.dim, c.sx, c.sy, c.sz, bg, T, "uint8")
      IN \/ EntryInto(a, <<>>, n)
         \/ \E L \in [0 .. n - 1 -> Labels], m \in 0 .. n - 1 : EntryInto(a, L, m)

NextInvalid == Driver \/ multilabel_dilate3_step \/ multilabel_dilate2_step

SpecInvalid == InitInvalid /\ [][NextInvalid]_vars

InvalidArguments ==
    /\ args.op = "multilabel_dilate"
    /\ LET n == args.sx * args.sy * args.sz
       IN DOMAIN labels # 0 .. n - 1 \/ DOMAIN output # 0 .. n - 1

\* C19: a call whose labels or output buffer is null or does not hold
\* sx * sy * sz cells does not return successfully, stores nothing to output
\* and leaves output as it was; no access is made outside a buffer.
C19_InvalidArgumentsRejected ==
    InvalidArguments =>
        /\ main.pc \notin {"done", "fault"}
        /\ "out_of_bounds" \notin paths
        /\ \A t \in DOMAIN wlog : wlog[t] = {}
        /\ \A i \in DOMAIN output : output[i] = 0

---------------------------------------------------------------------------
(* multilabel_dilate on a row of three voxels                              *)

\* the 3x1x1 volume and the 3x1 image with every labelling
InitRow ==
    \E dim \in {2, 3}, bg \in BOOLEAN, T \in 0 .. MaxThreads :
      \E L \in [0 .. 2 -> Labels] :
        Entry(Call("multilabel_dilate", dim, 3, 1, 1, bg, T, "uint8"), L)

NextRow == Driver \/ multilabel_dilate3_step \/ multilabel_dilate2_step

SpecRow == InitRow /\ [][NextRow]_vars

\* the call of scenario S6 has returned
ScenarioS6 ==
    /\ DilateReturned(FALSE) /\ args.dim = 3
    /\ args.sx = 3 /\ args.sy = 1 /\ args.sz = 1
    /\ labels = [i \in 0 .. 2 |-> <<1, 2, 0>>[i + 1]]

\* C20: multilabel dilate with background_only = false on the 3x1x1 volume
\* labels = [1, 2, 0] produces output = [1, 1, 1].
C20_ScenarioS6 == ScenarioS6 => output = [i \in 0 .. 2 |-> 1]

\* C20, as the code has it: the output is [1, 1, 2]; the voxel at x = 2 sees
\* the labels of x = 1 and x = 2 only, of which 2 is the one nonzero label.
C20_ScenarioS6Output == ScenarioS6 => output = [i \in 0 .. 2 |-> <<1, 1, 2>>[i + 1]]

\* scenario S6 has been run to its end by a pool thread
C20_Witness == ScenarioS6 /\ args.threads = 1 /\ output[2] = 2 /\ output[0] = 1

---------------------------------------------------------------------------
(* The stencil of the 3-D multilabel_dilate                                *)

\* the in-bounds cells of the 3x3 (y, z) column at xi around (y, z)
ColumnCells(a, xi, y, z) ==
    IF xi < 0 \/ xi >= a.sx THEN {}
    ELSE {xi + a.sx * (yy + a.sy * zz) :
            yy \in {v \in {y - 1, y, y + 1} : 0 <= v /\ v < a.sy},
            zz \in {v \in {z - 1, z, z + 1} : 0 <= v /\ v < a.sz}}

\* vec holds exactly the nonzero labels of the column at xi, each as often
\* as the column does
HoldsColumn(vec, a, L, xi, y, z) ==
    LET cells == ColumnCells(a, xi, y, z)
    IN /\ Len(vec) = Cardinality({i \in cells : L[i] # 0})
       /\ \A v \in {L[i] : i \in cells} \ {0} :
             Count(vec, v) = Cardinality({i \in cells : L[i] = v})

\* the closure t has just run an iteration of the 3-D dilation that refilled
\* its stencil: a step of a running closure past the background_only copy
Refilled(t) ==
    /\ args.op = "multilabel_dilate" /\ args.dim = 3
    /\ t \in DOMAIN tasks'
    /\ tasks[t].st = "running" /\ tasks'[t].st = "running"
    /\ tasks'[t].f # tasks[t].f
    /\ "out_of_bounds" \notin paths'
    /\ ~(args.background_only /\ labels[loc_of(args, tasks[t].f)] # 0)

StencilHoldsColumns(t) ==
    LET f == tasks[t].f
        g == tasks'[t].f
    IN /\ HoldsColumn(g.left, args, labels, f.x - 1, f.y, f.z)
       /\ HoldsColumn(g.middle, args, labels, f.x, f.y, f.z)
       /\ HoldsColumn(g.right, args, labels, f.x + 1, f.y, f.z)

\* C21: whenever the 3-D multilabel_dilate resolves a voxel (x, y, z), after
\* the refill selected by stale_stencil, left, middle and right hold exactly
\* the nonzero labels of the full in-bounds columns at x-1, x and x+1, with
\* the full and with the restricted fill, for both background_only settings.
C21_StencilInvariant ==
    [][\A t \in DOMAIN tasks : Refilled(t) => StencilHoldsColumns(t)]_vars

\* a 3-D call with background_only has returned after copying a foreground
\* voxel, stepping over empty neighbourhoods and resolving a voxel, with the
\* restricted fill used on a stencil shifted under stale_stencil = 1
C21_Witness ==
    /\ Returned /\ args.op = "multilabel_dilate" /\ args.dim = 3
    /\ args.background_only
    /\ {"restricted", "shift", "empty", "copy"} \subseteq paths
    /\ \E i \in DOMAIN labels : labels[i] = 0 /\ output[i] # 0

---------------------------------------------------------------------------
(* The purity cache of the 3-D multilabel_erode                            *)

\* a 6x4x4 volume: four interior voxels per row, two interior rows and two
\* interior slices, with inputs that vary in every column
ErodeWideCase ==
    LET c == Case(3, 6, 4, 4, {})
    IN [c EXCEPT !.W = {At(c, 0, 1, 1), At(c, 1, 1, 1), At(c, 2, 1, 1), At(c, 3, 1, 1),
                        At(c, 4, 1, 1), At(c, 5, 1, 1), At(c, 1, 2, 2), At(c, 2, 1, 3),
                        At(c, 4, 2, 3), At(c, 3, 3, 1), At(c, 1, 3, 2)}]

InitErodeWide ==
    LET c == ErodeWideCase
    IN \E L \in Inputs(c.sx * c.sy * c.sz, c.W, Labels, Labels) :
         Entry(Call("multilabel_erode", c.dim, c.sx, c.sy, c.sz, FALSE, 1, "uint8"), L)

NextErodeWide == Driver \/ multilabel_erode3_step

SpecErodeWide == InitErodeWide /\ [][NextErodeWide]_vars

\* the centre label of the column at xi if it is nonzero and the whole
\* column holds it, otherwise 0
TruePurity(a, L, xi, y, z) ==
    LET cells == ColumnCells(a, xi, y, z)
        centre == xi + a.sx * (y + a.sy * z)
    IN IF cells # {} /\ L[centre] # 0 /\ \A i \in cells : L[i] = L[centre]
       THEN L[centre] ELSE 0

\* the closures of a 3-D erosion that have an iteration left to run
ErodingTasks ==
    IF args.op = "multilabel_erode" /\ args.dim = 3 /\ main.pc # "fault"
    THEN {t \in DOMAIN tasks : tasks[t].st = "running" /\ ~tasks[t].f.fin}
    ELSE {}

\* the iteration the closure t runs next
NextErodeIter(t) ==
    multilabel_erode3_iter(args, labels, output, tasks[t].b, tasks[t].f)

\* the iteration reaches the test pure_left == pure_middle && pure_middle == pure_right
EmitTested(r) == r.via \cap {"emit", "mixed"} # {}

\* the voxels of the row an iteration at x steps over without that test
SteppedOver(b, f, r) ==
    IF EmitTested(r) THEN {}
    ELSE LET last == IF "skip2" \in r.via THEN f.x + 2 ELSE f.x + 1
         IN {v \in f.x .. last : v < b.xe}

\* C22: whenever the 3-D multilabel_erode tests pure_left == pure_middle &&
\* pure_middle == pure_right at (x, y, z), the three scalars are the true
\* purity values of the columns x-1, x and x+1, whichever of is_pure,
\* is_pure_fast_z, is_pure_fast_y or the stale_stencil shifts produced them;
\* and every voxel stepped over by a skip has an impure or zero column in
\* its own neighbourhood.
C22_PurityCache ==
    \A t \in ErodingTasks :
        LET f == tasks[t].f
            r == NextErodeIter(t)
        IN /\ EmitTested(r) =>
                 /\ r.f.pure_left = TruePurity(args, labels, f.x - 1, f.y, f.z)
                 /\ r.f.pure_middle = TruePurity(args, labels, f.x, f.y, f.z)
                 /\ r.f.pure_right = TruePurity(args, labels, f.x + 1, f.y, f.z)
           /\ \A v \in SteppedOver(tasks[t].b, f, r) :
                 \E xi \in {v - 1, v, v + 1} :
                     TruePurity(args, labels, xi, f.y, f.z) = 0

\* a 3-D erosion has returned after both fast predicates, every kind of
\* skip and an emit
C22_Witness ==
    /\ Returned /\ args.op = "multilabel_erode" /\ args.dim = 3
    /\ {"fast_z", "fast_y", "emit", "skip1", "skip2", "zero"} \subseteq paths

---------------------------------------------------------------------------
(* multilabel_erode on volumes of two blocks                               *)

\* 67 voxels along z, or along y: the interior 1 .. 65 falls into the blocks
\* [1, 64) and [64, 66); the inputs vary on both sides of the block boundary
ErodeBlockCases ==
    LET cz == Case(3, 3, 3, 67, {})
        cy == Case(3, 3, 67, 3, {})
    IN { [cz EXCEPT !.W = {At(cz, 1, 1, 62), At(cz, 2, 2, 66)}],
         [cy EXCEPT !.W = {At(cy, 1, 62, 1), At(cy, 2, 66, 2)}] }

InitErodeBlocks ==
    \E c \in ErodeBlockCases, T \in 1 .. MaxThreads :
      \E L \in Inputs(c.sx * c.sy * c.sz, c.W, {MaxLabel}, Labels) :
        Entry(Call("multilabel_erode", c.dim, c.sx, c.sy, c.sz, FALSE, T, "uint8"), L)

NextErodeBlocks == Driver \/ multilabel_erode3_step

SpecErodeBlocks == InitErodeBlocks /\ [][NextErodeBlocks]_vars

\* output as the closure t alone has made it: zero but for its own stores
OwnOutput(t) == [i \in DOMAIN output |-> IF i \in wlog[t] THEN output[i] ELSE 0]

\* C23: a closure of the 3-D multilabel_erode loads from output only cells
\* inside its own block, which no other closure stores to, and the purity
\* predicate an iteration uses is the one it would use had no other closure
\* run at all.
C23_ErodeBlocksIndependent ==
    /\ \A t \in DOMAIN tasks : \A i \in wlog[t] : InBlock(args, tasks[t].b, i)
    /\ \A t \in ErodingTasks :
          LET b == tasks[t].b
              f == tasks[t].f
          IN /\ \A i \in erode_output_loads(args, labels, output, b, f) :
                   /\ InBlock(args, b, i)
                   /\ \A u \in DOMAIN tasks \ {t} : i \notin wlog[u]
             /\ NextErodeIter(t).via
                  = multilabel_erode3_iter(args, labels, OwnOutput(t), b, f).via

\* the second block has emitted its first voxel, the one next to the block
\* boundary, and returned while the first block has not yet come to the
\* voxel on its side of the boundary
C23_Witness ==
    /\ args.op = "multilabel_erode" /\ Len(tasks) = 2
    /\ tasks[1].st = "running" /\ tasks[2].st = "done"
    /\ wlog[2] # {} /\ wlog[1] # {}
    /\ \E i \in wlog[2] : InBlock(args, [tasks[1].b EXCEPT !.ze = @ + 1, !.ye = @ + 1], i)
                            /\ output[i] # 0

---------------------------------------------------------------------------
(* What the eight engines load from output                                 *)

\* the loads the 3-D erosion would make if it had none from output
output_loads_of_dilate_only(a, L, O, b, f) ==
    LET loc == f.x + a.sx * (f.y + a.sy * f.z)
    IN IF a.op = "multilabel_dilate" /\ a.dim = 3 /\ f.z > b.zs
          /\ ~(a.background_only /\ L[loc] # 0)
       THEN {loc - a.sx * a.sy}
       ELSE {}

\* the indexes at which the next iteration of a closure loads from output:
\* output[loc - sxy] in the 3-D multilabel_dilate, output[loc - sxy] and
\* output[loc - sx] in the 3-D multilabel_erode, none in the other engines
output_loads(a, L, O, b, f) ==
    LET loc == f.x + a.sx * (f.y + a.sy * f.z)
    IN IF a.op = "multilabel_dilate" /\ a.dim = 3
       THEN (IF f.z > b.zs /\ ~(a.background_only /\ L[loc] # 0)
             THEN {loc - a.sx * a.sy} ELSE {})
       ELSE IF a.op = "multilabel_erode" /\ a.dim = 3
       THEN erode_output_loads(a, L, O, b, f)
       ELSE {}

\* a worker runs one iteration of the engine called, whichever it is
engine_step ==
    \E w \in DOMAIN workers, op \in Engines, dim \in {2, 3} : BlockStep(w, op, dim)

EngineCases ==
    LET c3 == Case(3, 3, 3, 4, {})
        c2 == Case(2, 4, 3, 1, {})
    IN { [c3 EXCEPT !.W = {At(c3, 1, 1, 1), At(c3, 0, 1, 2), At(c3, 2, 2, 3)}],
         [c2 EXCEPT !.W = {At(c2, 1, 1, 0), At(c2, 3, 2, 0), At(c2, 0, 0, 0)}] }

InitEngines ==
    \E op \in Engines, c \in EngineCases, bg \in BOOLEAN :
      \E L \in Inputs(c.sx * c.sy * c.sz, c.W, Labels, Labels) :
        /\ op # "multilabel_dilate" => ~bg
        /\ Entry(Call(op, c.dim, c.sx, c.sy, c.sz, bg, 1, "uint8"), L)

NextEngines == Driver \/ engine_step

SpecEngines == InitEngines /\ [][NextEngines]_vars

\* the closures of an engine that have an iteration left to run
IteratingTasks ==
    IF args.op \in Engines /\ main.pc # "fault"
    THEN {t \in DOMAIN tasks : tasks[t].st = "running" /\ ~tasks[t].f.fin}
    ELSE {}

\* the cells of output stored to so far in the call
Written == UNION {wlog[t] : t \in DOMAIN wlog}

\* the next iteration of t does the same on the buffer O as on output
SameIteration(t, O) ==
    LET r == block_iter(args, labels, output, tasks[t].b, tasks[t].f)
        q == block_iter(args, labels, O, tasks[t].b, tasks[t].f)
    IN /\ r.f = q.f /\ r.w = q.w /\ r.via = q.via
       /\ \A i \in r.w : r.out[i] = q.out[i]

\* C24: no engine but the 3-D multilabel_dilate loads from output at an
\* index the call has not stored to before.
C24_LoadsOnlyWritten ==
    \A t \in IteratingTasks :
        (args.op = "multilabel_dilate" /\ args.dim = 3)
        \/ output_loads(args, labels, output, tasks[t].b, tasks[t].f) \subseteq Written

\* C24, as the code has it: the grey engines and the 2-D engines never load
\* from output; the 3-D multilabel_dilate loads output[loc - sxy], and the
\* 3-D multilabel_erode loads output[loc - sxy] and output[loc - sx], at
\* voxels the closure has passed, stored to or not. An iteration does not
\* depend on output anywhere else.
C24_OutputLoads ==
    \A t \in IteratingTasks :
        LET b == tasks[t].b
            f == tasks[t].f
            loads == output_loads(args, labels, output, b, f)
        IN /\ \A i \in loads : InBlock(args, b, i) /\ i < loc_of(args, f)
           /\ \A c \in Labels :
                 SameIteration(t, [i \in DOMAIN output |->
                                     IF i \in loads THEN output[i] ELSE c])

\* a closure of the 3-D multilabel_erode is about to load output at a voxel
\* it has passed without storing to it
C24_Witness ==
    /\ args.op = "multilabel_erode" /\ args.dim = 3
    /\ \E t \in IteratingTasks :
          \E i \in output_loads(args, labels, output, tasks[t].b, tasks[t].f) :
              i \notin Written /\ labels[i] # 0

---------------------------------------------------------------------------
(* Memory safety on degenerate shapes                                      *)

\* mutant: the column is read without the test xi < sx
column_addresses_unchecked(a, xi, yi, zi) ==
    LET sxy == a.sx * a.sy
        loc == xi + a.sx * (yi + a.sy * zi)
        ylo == yi > 0
        yhi == yi < USub(a.sy, 1)
        zlo == zi > 0
        zhi == zi < USub(a.sz, 1)
    IN {loc}
       \cup (IF ylo THEN {loc - a.sx} ELSE {})
       \cup (IF yhi THEN {loc + a.sx} ELSE {})
       \cup (IF zlo THEN {loc - sxy} ELSE {})
       \cup (IF zhi THEN {loc + sxy} ELSE {})
       \cup (IF ylo /\ zlo THEN {loc - a.sx - sxy} ELSE {})
       \cup (IF yhi /\ zlo THEN {loc + a.sx - sxy} ELSE {})
       \cup (IF ylo /\ zhi THEN {loc - a.sx + sxy} ELSE {})
       \cup (IF yhi /\ zhi THEN {loc + a.sx + sxy} ELSE {})

\* the indexes of labels that fill_partial_stencil_fn, get_max and get_min
\* may load for the column (xi, yi, zi): none when xi < 0 || xi >= sx, else
\* labels[loc] and the eight neighbours under their guards y > 0, y < sy - 1,
\* z > 0, z < sz - 1, the subtractions being unsigned.  The restricted fill
\* loads a subset of them; the 2-D overloads are the case zi = 0, sz = 1.
column_addresses(a, xi, yi, zi) ==
    LET sxy == a.sx * a.sy
        loc == xi + a.sx * (yi + a.sy * zi)
        ylo == yi > 0
        yhi == yi < USub(a.sy, 1)
        zlo == zi > 0
        zhi == zi < USub(a.sz, 1)
    IN IF xi < 0 \/ xi >= a.sx THEN {}
       ELSE {loc}
            \cup (IF ylo THEN {loc - a.sx} ELSE {})
            \cup (IF yhi THEN {loc + a.sx} ELSE {})
            \cup (IF zlo THEN {loc - sxy} ELSE {})
            \cup (IF zhi THEN {loc + sxy} ELSE {})
            \cup (IF ylo /\ zlo THEN {loc - a.sx - sxy} ELSE {})
            \cup (IF yhi /\ zlo THEN {loc + a.sx - sxy} ELSE {})
            \cup (IF ylo /\ zhi THEN {loc - a.sx + sxy} ELSE {})
            \cup (IF yhi /\ zhi THEN {loc + a.sx + sxy} ELSE {})

\* the indexes of labels that is_pure and its restricted forms may load:
\* labels[loc] is a factor of the product and is loaded before xi is
\* tested, the neighbours under the same guards as above
pure_addresses(a, xi, yi, zi) ==
    {xi + a.sx * (yi + a.sy * zi)} \cup column_addresses(a, xi, yi, zi)

\* the columns an iteration at x may evaluate, by stale_stencil: x+1 alone,
\* x and x+1, or x-1, x and x+1 with x-1 unsigned
stencil_columns(f) ==
    IF f.stale_stencil = 1 THEN {U64(USub(f.x, 1) + 2)}
    ELSE IF f.stale_stencil = 2 THEN {f.x, U64(USub(f.x, 1) + 2)}
    ELSE IF f.stale_stencil >= 3 THEN {USub(f.x, 1), f.x, U64(USub(f.x, 1) + 2)}
    ELSE {}

\* the indexes of labels the next iteration of a closure may load:
\* labels[loc], and unless the voxel is copied or stepped over, the columns
\* of the stencil it evaluates
label_loads(a, L, b, f) ==
    LET loc == f.x + a.sx * (f.y + a.sy * f.z)
        over == IF loc \notin DOMAIN L THEN TRUE
                ELSE IF a.op = "multilabel_dilate" THEN a.background_only /\ L[loc] # 0
                ELSE IF a.op = "multilabel_erode" THEN L[loc] = 0
                ELSE IF a.op = "grey_dilate" THEN L[loc] = MAX_LABEL(a.ltype)
                ELSE L[loc] = MIN_LABEL(a.ltype)
    IN {loc} \cup
       (IF over THEN {}
        ELSE IF a.op = "multilabel_erode"
        THEN UNION {pure_addresses(a, xi, f.y, f.z) : xi \in stencil_columns(f)}
        ELSE UNION {column_addresses(a, xi, f.y, f.z) : xi \in stencil_columns(f)})

ShapeSizes == {1, 2, 3}

\* every shape with axes of 1, 2 or 3 voxels; the inputs vary in the first,
\* the middle and the last voxel
ShapeCases ==
    {Case(3, sx, sy, sz, {0, (sx * sy * sz) \div 2, sx * sy * sz - 1}) :
        sx \in ShapeSizes, sy \in ShapeSizes, sz \in ShapeSizes}
    \cup {Case(2, sx, sy, 1, {0, (sx * sy) \div 2, sx * sy - 1}) :
        sx \in ShapeSizes, sy \in ShapeSizes}

InitShapes ==
    \E op \in Engines, c \in ShapeCases, bg \in BOOLEAN, T \in 0 .. MaxThreads :
      \E L \in Inputs(c.sx * c.sy * c.sz, c.W, {0, 1},
                      IF op \in {"grey_dilate", "grey_erode"}
                      THEN GreyValues("uint8") ELSE Labels) :
        /\ op # "multilabel_dilate" => ~bg
        /\ Entry(Call(op, c.dim, c.sx, c.sy, c.sz, bg, T, "uint8"), L)

NextShapes == Driver \/ engine_step

SpecShapes == InitShapes /\ [][NextShapes]_vars

\* right[0], right[size-1], middle[0], neighbors[0] and neighbors[size-1] of
\* the iteration with outcome r are taken from vectors that hold an element
VectorReadsSafe(a, r) ==
    LET left == r.f.left
        middle == r.f.middle
        right == r.f.right
    IN (a.op = "multilabel_dilate" /\ r.via \cap {"copy", "empty"} = {}) =>
          /\ Len(right) + Len(middle) >= (IF a.dim = 3 THEN 14 ELSE 5) =>
                /\ Len(right) >= 1
                /\ right[1] = right[Len(right)] => Len(middle) >= 1
          /\ "uniform" \notin r.via => Len(left) + Len(middle) + Len(right) >= 1

\* C25: for every shape with sx, sy, sz >= 1, every input and every worker
\* count, each index at which an iteration of one of the eight engines loads
\* labels, loads output or stores to output lies in [0, sx*sy*sz), and the
\* elements right[0], middle[0], neighbors[0], neighbors[size-1] are read
\* from non-empty vectors; x-1 at x = 0, sy-1 and sz-1 lead nowhere outside.
C25_MemorySafety ==
    \A t \in IteratingTasks :
        LET b == tasks[t].b
            f == tasks[t].f
        IN /\ label_loads(args, labels, b, f) \subseteq DOMAIN labels
           /\ output_loads(args, labels, output, b, f) \subseteq DOMAIN output
           /\ block_iter(args, labels, output, b, f).w \subseteq DOMAIN output
           /\ VectorReadsSafe(args, block_iter(args, labels, output, b, f))
           /\ "out_of_bounds" \notin paths

\* a closure is about to evaluate the column x-1 at x = 0 on an axis of one
\* voxel, next to an axis of two voxels, on a voxel it neither copies nor
\* steps over
C25_Witness ==
    /\ args.sx = 1 /\ args.sy = 2
    /\ \E t \in IteratingTasks :
          LET f == tasks[t].f
          IN /\ f.x = 0 /\ f.stale_stencil >= 3
             /\ USub(f.x, 1) \in stencil_columns(f)
             /\ label_loads(args, labels, tasks[t].b, f) # {loc_of(args, f)}

---------------------------------------------------------------------------
(* grey_dilate on volumes without the sentinel                             *)

\* no voxel of the input holds std::numeric_limits<LABEL>::max()
NoMaxVoxel == \A i \in DOMAIN labels : labels[i] # MAX_LABEL(args.ltype)

\* the values of max_left, max_middle, max_right that the next iteration of
\* the closure t takes over from the iteration before are the maxima of the
\* columns they stand for
CarriedMaxima(t) ==
    LET f == tasks[t].f
        col(xi) == get_max(args, labels, xi, f.y, f.z)
    IN /\ f.stale_stencil >= 1
       /\ f.stale_stencil = 1 =>
             /\ f.max_middle = col(USub(f.x, 1))
             /\ f.max_right = col(f.x)
       /\ f.stale_stencil = 2 => f.max_right = col(USub(f.x, 1))

\* C26: grey_dilate, 3-D and 2-D, on an input in which no voxel holds the
\* maximum of the element type: the returned output holds at every voxel the
\* maximum over its in-bounds neighbourhood, and the maxima an iteration
\* carries over are those of real columns, never the initial MAX_LABEL,
\* since every row starts with stale_stencil = 3.
C26_GreyDilateWithoutSentinel ==
    (args.op = "grey_dilate" /\ NoMaxVoxel) =>
        /\ \A t \in IteratingTasks : CarriedMaxima(t)
        /\ Returned =>
              \A loc \in DOMAIN labels :
                  output[loc] = SetMax(NeighbourValues(args, labels, loc))

\* a returned 3-D call on int8 values without the sentinel, with a voxel
\* whose neighbourhood is negative throughout and one that was raised
C26_Witness ==
    /\ Returned /\ args.op = "grey_dilate" /\ args.dim = 3 /\ NoMaxVoxel
    /\ args.sy > 1 /\ "emit" \in paths
    /\ \E i, j \in DOMAIN labels : output[i] < 0 /\ output[j] > labels[j]

---------------------------------------------------------------------------
(* grey_erode on unsigned element types                                    *)

\* C27: grey_erode, 3-D and 2-D, on an unsigned element type, whose minimum
\* 0 is the value of the zeroed output: for every input the returned output
\* holds at every voxel the minimum over its in-bounds neighbourhood, and
\* every voxel the MIN_LABEL skips stepped over without a store has the
\* true minimum 0.
C27_GreyErodeUnsigned ==
    (Returned /\ args.op = "grey_erode" /\ MIN_LABEL(args.ltype) = 0) =>
        \A loc \in DOMAIN labels :
            /\ output[loc] = SetMin(NeighbourValues(args, labels, loc))
            /\ loc \notin Written => SetMin(NeighbourValues(args, labels, loc)) = 0

\* a returned 3-D call on uint8 values that stepped over voxels after a
\* voxel holding 0 and after columns holding 0, and stored a nonzero minimum
C27_Witness ==
    /\ Returned /\ args.op = "grey_erode" /\ args.dim = 3
    /\ args.ltype = "uint8"
    /\ {"sentinel", "skip2", "skip1", "emit"} \subseteq paths
    /\ \E i, j \in DOMAIN labels :
          /\ i \notin Written /\ labels[i] # 0
          /\ j \in Written /\ output[j] # 0

---------------------------------------------------------------------------
(* fastmorphops.cpp: erode_helper and dilate_helper                        *)

\* fill_partial_stencil_fn of the two helpers: the same text as the lambda
\* of the 3-D multilabel_dilate
helper_fill(a, L, xi, yi, zi) == fill_partial_stencil_fn(a, L, xi, yi, zi)

\* is_pure of erode_helper: nine elements, each equal to the one before
helper_is_pure(square) ==
    /\ Len(square) >= 9
    /\ \A i \in 2 .. 9 : square[i] = square[i - 1]

\* advance_stencil: left = middle, middle = right, right refilled at x+2;
\* erode_helper shifts the purities alongside
helper_advance(a, L, f) ==
    LET right == helper_fill(a, L, U64(f.x + 2), f.y, f.z)
    IN [f EXCEPT !.left = f.middle, !.middle = f.right, !.right = right,
                 !.pure_left = f.pure_middle, !.pure_middle = f.pure_right,
                 !.pure_right = (a.op = "erode_helper" /\ helper_is_pure(right))]

\* if (stale_stencil) { the three columns are refilled; stale_stencil = false }
helper_refresh(a, L, f) ==
    IF ~f.stale_stencil THEN f
    ELSE LET left == helper_fill(a, L, USub(f.x, 1), f.y, f.z)
             middle == helper_fill(a, L, f.x, f.y, f.z)
             right == helper_fill(a, L, f.x + 1, f.y, f.z)
             pure == a.op = "erode_helper"
         IN [f EXCEPT !.left = left, !.middle = middle, !.right = right,
                      !.pure_left = (pure /\ helper_is_pure(left)),
                      !.pure_middle = (pure /\ helper_is_pure(middle)),
                      !.pure_right = (pure /\ helper_is_pure(right)),
                      !.stale_stencil = FALSE]

\* x++ of the x loop, then the y and z loops, over the whole volume; a new
\* row starts with stale_stencil = true
helper_next(a, f) ==
    IF f.x + 1 < a.sx THEN [f EXCEPT !.x = f.x + 1]
    ELSE IF f.y + 1 < a.sy
         THEN [f EXCEPT !.x = 0, !.y = f.y + 1, !.stale_stencil = TRUE]
    ELSE IF f.z + 1 < a.sz
         THEN [f EXCEPT !.x = 0, !.y = 0, !.z = f.z + 1, !.stale_stencil = TRUE]
    ELSE [f EXCEPT !.x = f.x + 1, !.fin = TRUE]

\* the state of the loops of a helper on entry
helper_entry(a) ==
    [x |-> 0, y |-> 0, z |-> 0, stale_stencil |-> TRUE,
     left |-> <<>>, middle |-> <<>>, right |-> <<>>,
     pure_left |-> FALSE, pure_middle |-> FALSE, pure_right |-> FALSE,
     fin |-> (a.sx = 0 \/ a.sy = 0 \/ a.sz = 0)]

\* one iteration of the x loop of erode_helper
erode_helper_iter(a, L, O, f) ==
    LET loc == f.x + a.sx * (f.y + a.sy * f.z)
    IN IF L[loc] = 0
       THEN Iter(helper_next(a, [f EXCEPT !.stale_stencil = TRUE]), O, {}, {"zero"})
       ELSE LET g == helper_refresh(a, L, f)
                emit == g.pure_left /\ g.pure_middle /\ g.pure_right
            IN Iter(helper_next(a, helper_advance(a, L, g)),
                    IF emit THEN [O EXCEPT ![loc] = L[loc]] ELSE O,
                    IF emit THEN {loc} ELSE {},
                    IF emit THEN {"emit"} ELSE {"impure"})

\* the mode scan of dilate_helper: the loop of the 3-D multilabel_dilate,
\* with nothing after it; mode_label is what the loop leaves
helper_mode(nb) == mode_scan(nb, 1, nb[1], 1, 1).mode_label

\* one iteration of the x loop of dilate_helper
dilate_helper_iter(a, L, O, f) ==
    LET loc == f.x + a.sx * (f.y + a.sy * f.z)
    IN IF a.background_only /\ L[loc] # 0
       THEN Iter(helper_next(a, [f EXCEPT !.stale_stencil = TRUE]),
                 [O EXCEPT ![loc] = L[loc]], {loc}, {"copy"})
       ELSE LET g == helper_refresh(a, L, f)
                h == helper_next(a, helper_advance(a, L, g))
            IN IF Len(g.left) + Len(g.middle) + Len(g.right) = 0
               THEN Iter(h, O, {}, {"empty"})
               ELSE LET neighbors == Sorted(g.left \o g.middle \o g.right)
                    IN Iter(h, [O EXCEPT ![loc] = helper_mode(neighbors)], {loc},
                            {"mode"})

Helpers == {"erode_helper", "dilate_helper"}

\* the calling thread runs one iteration of the helper called
HelperStep ==
    /\ main.pc = "helper"
    /\ ~tasks[1].f.fin
    /\ LET r == IF args.op = "erode_helper"
                THEN erode_helper_iter(args, labels, output, tasks[1].f)
                ELSE dilate_helper_iter(args, labels, output, tasks[1].f)
       IN /\ output' = r.out
          /\ tasks' = [tasks EXCEPT ![1].f = r.f]
          /\ wlog' = [wlog EXCEPT ![1] = @ \cup r.w]
          /\ paths' = paths \cup r.via
    /\ UNCHANGED <<args, labels, main, queue, workers>>

\* return to_numpy(output, sx, sy, sz)
HelperReturn ==
    /\ main.pc = "helper"
    /\ tasks[1].f.fin
    /\ main' = [main EXCEPT !.pc = "done"]
    /\ UNCHANGED <<args, labels, output, tasks, queue, workers, wlog, paths>>

HelperCases ==
    LET c3 == Case(3, 3, 3, 3, {})
        c4 == Case(3, 4, 3, 3, {})
    IN { [c3 EXCEPT !.W = {At(c3, 0, 0, 0), At(c3, 1, 1, 1), At(c3, 2, 1, 2)}],
         [c4 EXCEPT !.W = {At(c4, 3, 1, 1)}] }

\* the volumes whose planes x = const hold one label each, changed in at
\* most MaxDiff cells of the window; output comes zeroed from
\* new uint8_t[...]()
InitHelpers ==
    \E op \in Helpers, c \in HelperCases, bg \in BOOLEAN :
      \E v \in [0 .. c.sx - 1 -> Labels] :
        \E L \in Perturb({[i \in 0 .. c.sx * c.sy * c.sz - 1 |-> v[i % c.sx]]},
                         c.W, Labels, MaxDiff) :
          /\ op = "erode_helper" => ~bg
          /\ args = Call(op, 3, c.sx, c.sy, c.sz, bg, 0, "uint8")
          /\ labels = L
          /\ output = [i \in DOMAIN L |-> 0]
          /\ main = [pc |-> "helper", gx |-> 0, gy |-> 0, gz |-> 0]
          /\ tasks = <<[b |-> block_bounds(args, 0, 0, 0), st |-> "running",
                        by |-> 0, runs |-> 1, f |-> helper_entry(args)]>>
          /\ queue = <<>>
          /\ workers = [w \in {0} |-> 1]
          /\ wlog = <<{}>>
          /\ paths = {}

NextHelpers == HelperStep \/ HelperReturn

SpecHelpers == InitHelpers /\ [][NextHelpers]_vars

\* C28: erode_helper: for every input, output[loc] is labels[loc] only if
\* labels[loc] is nonzero and all 27 voxels of the 3x3x3 neighbourhood are in
\* bounds and equal to labels[loc]; three columns that are each uniform but
\* carry different labels cause no store; every other voxel stays 0.
C28_ErodeHelperUniform ==
    (Returned /\ args.op = "erode_helper") =>
        \A loc \in DOMAIN labels :
            /\ output[loc] \in {0, labels[loc]}
            /\ output[loc] # 0 =>
                  /\ Interior(args, loc)
                  /\ \A n \in Neighbourhood(args, loc) : labels[n] = labels[loc]

\* C29: dilate_helper with background_only = false: for every input and
\* every voxel whose neighbourhood holds a nonzero label, the value written
\* is a nonzero label of maximal multiplicity in the in-bounds 3x3x3
\* neighbourhood, also when that label is the last run of the sorted list.
C29_DilateHelperMode ==
    (Returned /\ args.op = "dilate_helper" /\ ~args.background_only) =>
        \A loc \in DOMAIN labels :
            NonzeroLabels(args, labels, loc) # {} =>
                output[loc] \in Modes(args, labels, loc)

---------------------------------------------------------------------------
(* src/unnamed/part_001: the block partition of fastmorph::dilate          *)

\* std::max((s + block_size/2) / block_size, 1) with block_size = 64
grid_001(s) == Max((s + 64 \div 2) \div 64, 1)

\* the arguments of process_block for grid cell (gx, gy, gz)
block_bounds_001(a, gx, gy, gz) ==
    [xs |-> gx * 64, xe |-> Min((gx + 1) * 64, a.sx),
     ys |-> gy * 64, ye |-> Min((gy + 1) * 64, a.sy),
     zs |-> gz * 64, ze |-> Min((gz + 1) * 64, a.sz)]

\* one iteration of the gz/gy/gx loops of dilate: pool.enqueue
Enqueue001 ==
    /\ main.pc = "enqueue"
    /\ tasks' = Append(tasks, [b |-> block_bounds_001(args, main.gx, main.gy, main.gz),
                               st |-> "queued", by |-> -1, runs |-> 0,
                               f |-> [fin |-> FALSE]])
    /\ queue' = Append(queue, Len(tasks) + 1)
    /\ wlog' = Append(wlog, {})
    /\ main' = IF main.gx + 1 < grid_001(args.sx) THEN [main EXCEPT !.gx = main.gx + 1]
               ELSE IF main.gy + 1 < grid_001(args.sy)
                    THEN [main EXCEPT !.gx = 0, !.gy = main.gy + 1]
               ELSE IF main.gz + 1 < grid_001(args.sz)
                    THEN [main EXCEPT !.gx = 0, !.gy = 0, !.gz = main.gz + 1]
               ELSE [main EXCEPT !.pc = "join"]
    /\ UNCHANGED <<args, labels, output, workers, paths>>

\* the sizes around the multiples of 32 and 64
AxisSizes001 ==
    {1, 2} \cup {g * 64 + d : g \in 1 .. MaxGrid, d \in {-33, -32, -31, -1, 0, 1}}

\* calls with at most one thread asked for, whose real_threads is that
\* number whatever the grid; the closures are taken as doing nothing
InitDilate001 ==
    \E sx \in AxisSizes001, sy \in {1, 64, 65}, sz \in {1, 65}, T \in 0 .. 1 :
        Entry(DriverCall(sx, sy, sz, T, 0), <<>>)

NextDilate001 == Enqueue001 \/ TakeAny \/ FinishAny \/ Join

SpecDilate001 == InitDilate001 /\ [][NextDilate001]_vars

\* C30: the blocks enqueued by fastmorph::dilate of part_001 partition the
\* volume, for every sx, sy, sz >= 1: they lie inside it, no two of them
\* share a voxel, and their volumes add up to sx*sy*sz, so that every voxel
\* belongs to exactly one block and is processed.
C30_BlocksPartitionVolume ==
    Enqueued =>
        /\ \A t \in DOMAIN tasks :
              /\ tasks[t].b.xe <= args.sx
              /\ tasks[t].b.ye <= args.sy
              /\ tasks[t].b.ze <= args.sz
        /\ \A t, u \in DOMAIN tasks :
              (t # u /\ NonEmpty(tasks[t].b) /\ NonEmpty(tasks[u].b)) =>
                  BoxesDisjoint(tasks[t].b, tasks[u].b)
        /\ SumVolumes(tasks, 1) = args.sx * args.sy * args.sz

=============================================================================
